---- MODULE Spec2Model ----
(***************************************************************************)
(* Per-tab auto-upload queue coordinator of background.js:                 *)
(* the MACA_AUTO_PROCESS_ATTACHMENT handler and its job body, the          *)
(* MACA_AUTO_UPLOAD_CANCEL / PAUSE / RESUME handlers, the stats-reset      *)
(* timer and the tabs.onRemoved cleanup, over the module-level maps        *)
(* __autoUpload*ByTab.                                                     *)
(*                                                                         *)
(* Every await of the source that waits for something outside the event    *)
(* loop (storage read, tabs.sendMessage, analyzeImage, setTimeout) is a    *)
(* position (pc) of the handler; the synchronous code between two awaits   *)
(* is one atomic action.  A rejected job promise and the synchronous head  *)
(* of the handler's catch block are one action: the handler's await was    *)
(* registered on the job promise before any later job's prev.catch(), so   *)
(* its continuation runs first and no other task runs in between.          *)
(***************************************************************************)
EXTENDS Integers, Sequences, FiniteSets, TLC

\* ---------------------------------------------------------------- bounds
MaxMsgs == 2          \* MACA_AUTO_PROCESS_ATTACHMENT messages in one behaviour
NumTabs == 1          \* browser tabs
NumAtts == 2          \* distinct attachment ids
MaxTicks == 1         \* clock advances in one behaviour
MutexMsgs == 2        \* messages in one behaviour of SpecMutex
FuseExtra == 1        \* candidates admitted beyond the fuse threshold in SpecFuse
CancelMsgs == 2       \* messages in one behaviour of SpecCancel
GraceMsgs == 2        \* messages in one behaviour of SpecGrace
GraceTicks == 3       \* clock advances in one behaviour of SpecGrace
MaxCmds == 1          \* pause/resume/cancel commands in one behaviour of SpecGrace
HappyMsgs == 3        \* messages of the happy-path scenario (ids 1..HappyMsgs)
FailMsgs == 3         \* messages of the failure scenario (ids 1..FailMsgs)
IsoMsgs == 2          \* messages in one behaviour of SpecIso
IsoTabs == 2          \* browser tabs of SpecIso
IsoTicks == 1         \* clock advances in one behaviour of SpecIso

\* ------------------------------------------------------ program constants
TtlMs == 5 * 60 * 1000            \* wasRecentlyAutoProcessed default ttlMs
StaleMs == 30000                  \* admission: stale cancel flag
KeepSlackMs == 500                \* resetAutoUploadStatsLater: delayMs - 500
DelayDoneAll == 14000             \* resetAutoUploadStatsLater after done_all (success)
DelayCancelled == 12000           \* ... after cancelled
DelayErrorAll == 16000            \* ... after done_all (error path)
FuseMin == 5                      \* Math.max(5, configured)
FuseDefault == 24                 \* fuseMax when the configured value is not a number
PreviewLen == 8                   \* queuePreviewFromTab maxLen
ApplyAttempts == 12               \* autoApplyAttachmentWithRetry(..., { attempts: 12 })

\* ------------------------------------------------------------- universes
NoTab == 0                        \* sender.tab is undefined
NoAtt == 0                        \* String(msg.attachmentId || "") is ""

\* JavaScript values a configuration key can hold: t is the type, n the value
\* of a number (1 or 0 for true and false), s the text of a string
JsNum(n) == [t |-> "number", n |-> n, s |-> ""]
JsStr(s) == [t |-> "string", n |-> 0, s |-> s]
JsBool(b) == [t |-> "boolean", n |-> IF b THEN 1 ELSE 0, s |-> ""]
JsNull == [t |-> "null", n |-> 0, s |-> ""]
JsUndefined == [t |-> "undefined", n |-> 0, s |-> ""]
JsInfinity == [t |-> "infinity", n |-> 0, s |-> ""]
NotANumber == [t |-> "nan", n |-> 0, s |-> ""]     \* NaN

VARIABLES
  now,        \* Date.now()
  ticks,      \* clock advances left in this behaviour
  cfgCache,   \* _cfgCache: << >> when null, <<cfg>> when populated
  mem,        \* the module-level maps (see InitMem)
  hs,         \* one record per MACA_AUTO_PROCESS_ATTACHMENT handler invocation
  closed,     \* tabs for which tabs.onRemoved has fired
  pauseReq,   \* per tab: Pause was received and neither Resume, Cancel nor tab close since
  logging,    \* whether progress messages are recorded in events
  events,     \* progress messages handed to chrome.tabs.sendMessage, in order
  obs         \* the content script of one page: AUTO_UPLOAD, its settings, the
              \* attachment tiles of the page and the hand-offs in flight

vars == <<now, ticks, cfgCache, mem, hs, closed, pauseReq, logging, events, obs>>

\* the variables of the service worker
workerVars == <<now, ticks, cfgCache, mem, hs, closed, pauseReq, logging, events>>

\* the universes of a behaviour, fixed by its initial state
Handlers == DOMAIN hs
Tabs == DOMAIN pauseReq
TabKeys == {NoTab} \cup Tabs      \* keys the per-tab maps can hold
AttIds == DOMAIN mem.seen[NoTab]

ZeroStats == [queued |-> 0, done |-> 0, ok |-> 0, error |-> 0, lastAt |-> 0]

\* const __autoUpload...ByTab = new Map(), for tabs 1..nTabs, attachment ids
\* 1..nAtts and nMsgs handler invocations
InitMem(nMsgs, nTabs, nAtts) ==
  [ queue   |-> [t \in 0..nTabs |-> 0],        \* __autoUploadQueueByTab: handler whose job promise is stored, 0 = no entry
    seenHas |-> [t \in 0..nTabs |-> FALSE],    \* __autoUploadSeenByTab has an entry
    seen    |-> [t \in 0..nTabs |-> [a \in 1..nAtts |-> -1]],  \* its id -> timestamp (-1 = no entry)
    stats   |-> [t \in 0..nTabs |-> 0],        \* __autoUploadStatsByTab: object id, 0 = no entry
    heap    |-> [o \in 1..(nMsgs + nTabs + 2) |-> ZeroStats],   \* the stats objects
    cancel  |-> [t \in 0..nTabs |-> FALSE],    \* __autoUploadCancelByTab.get(t) === true
    paused  |-> [t \in 0..nTabs |-> FALSE],    \* __autoUploadPausedByTab.get(t) === true
    pendHas |-> [t \in 0..nTabs |-> FALSE],    \* __autoUploadPendingIdsByTab has an entry
    pend    |-> [t \in 0..nTabs |-> << >>],    \* its list
    timers  |-> {},                            \* pending setTimeout callbacks of resetAutoUploadStatsLater
    batchCancel |-> [t \in 0..nTabs |-> "none"],  \* __batchCancelByTab: "none" = no entry, "false", "true"
    batchAbort  |-> [t \in 0..nTabs |-> 0],       \* __batchAbortByTab: handler whose AbortController is stored
    aborted     |-> {} ]                         \* handlers whose AbortController has been aborted

\* rcv is the number of progress messages recorded before the message arrived;
\* tries and lastRes are i and lastRes of autoApplyAttachmentWithRetry; lost is
\* the set of positions at which a progress send of this invocation failed;
\* for a batch run cur is the current of its closing overlay message and iters
\* the number of loop iterations that ran to their end, and sig tells that the
\* run's abort signal was already aborted when analyzeImage was called
IdleHandler ==
  [ pc |-> "idle", tab |-> NoTab, att |-> NoAtt, st |-> 0, markedSeen |-> FALSE,
    prev |-> 0, settled |-> "no", resp |-> "none", em |-> {}, seq |-> 0, at |-> 0,
    rcv |-> 0, tries |-> 0, lastRes |-> "null", lost |-> {}, cur |-> 0, iters |-> 0,
    sig |-> FALSE ]

\* ------------------------------------------------------------ pure helpers
Min(S) == CHOOSE x \in S : \A y \in S : x <= y

Max2(a, b) == IF a >= b THEN a ELSE b

RECURSIVE SeqWithout(_, _)
\* list.splice(list.indexOf(id), 1)
SeqWithout(s, x) ==
  IF s = << >> THEN << >>
  ELSE IF Head(s) = x THEN Tail(s)
  ELSE <<Head(s)>> \o SeqWithout(Tail(s), x)

SeqHas(s, x) == \E k \in 1..Len(s) : s[k] = x

\* list.slice(0, n)
Take(s, n) == IF Len(s) <= n THEN s ELSE SubSeq(s, 1, n)

\* ------------------------------------------------- the source's functions
\* Lowest stats object that neither the map nor a running handler refers to.
FreeObj(m, H) ==
  Min({o \in DOMAIN m.heap :
         (\A t \in DOMAIN m.stats : m.stats[t] # o) /\ (\A h \in DOMAIN H : H[h].st # o)})

\* wasRecentlyAutoProcessed: eviction of entries older than the TTL
EvictSeen(m, t) ==
  IF ~m.seenHas[t] THEN m
  ELSE [m EXCEPT !.seen[t] =
          [a \in DOMAIN m.seen[t] |-> IF m.seen[t][a] >= 0 /\ now - m.seen[t][a] > TtlMs
                            THEN -1 ELSE m.seen[t][a]]]

\* the registry is never consulted
wasRecentlyAutoProcessedNever(m, t, a) == FALSE

\* wasRecentlyAutoProcessed: the returned value (read after the eviction)
wasRecentlyAutoProcessed(m, t, a) ==
  /\ m.seenHas[t]
  /\ a # NoAtt
  /\ m.seen[t][a] > 0               \* !!ts
  /\ now - m.seen[t][a] <= TtlMs

markAutoProcessed(m, t, a) ==
  IF t = NoTab \/ a = NoAtt THEN m
  ELSE [m EXCEPT !.seenHas[t] = TRUE, !.seen[t][a] = now]

unmarkAutoProcessed(m, t, a) ==
  IF t = NoTab \/ a = NoAtt THEN m
  ELSE IF ~m.seenHas[t] THEN m
  ELSE [m EXCEPT !.seen[t][a] = -1]

getAutoPendingIds(m, t) ==
  IF m.pendHas[t] THEN m ELSE [m EXCEPT !.pendHas[t] = TRUE, !.pend[t] = << >>]

enqueueAutoPendingId(m, t, a) ==
  IF a = NoAtt THEN m
  ELSE LET m1 == getAutoPendingIds(m, t)
       IN  IF SeqHas(m1.pend[t], a) THEN m1
           ELSE [m1 EXCEPT !.pend[t] = Append(m1.pend[t], a)]

dequeueAutoPendingId(m, t, a) ==
  IF a = NoAtt THEN m
  ELSE LET m1 == getAutoPendingIds(m, t)
       IN  [m1 EXCEPT !.pend[t] = SeqWithout(m1.pend[t], a)]

\* getAutoUploadStats: creates the entry when absent, refreshes lastAt
getAutoUploadStats(m, H, t) ==
  LET o  == IF m.stats[t] # 0 THEN m.stats[t] ELSE FreeObj(m, H)
      m1 == IF m.stats[t] # 0 THEN m
            ELSE [m EXCEPT !.stats[t] = o, !.heap[o] = [ZeroStats EXCEPT !.lastAt = now]]
  IN  [m1 EXCEPT !.heap[o].lastAt = now]

\* the clamp is applied to the default instead of the configured value
\* Number(string): white space is trimmed, the empty text is 0, a decimal
\* literal is its value, any other text is NaN (the texts of StringInputs)
StringToNumber(s) ==
  CASE s = ""      -> [finite |-> TRUE, n |-> 0]
    [] s = " "     -> [finite |-> TRUE, n |-> 0]
    [] s = "7"     -> [finite |-> TRUE, n |-> 7]
    [] s = " 30 "  -> [finite |-> TRUE, n |-> 30]
    [] OTHER       -> [finite |-> FALSE, n |-> 0]

\* Number(v) followed by Number.isFinite
Number(v) ==
  CASE v.t = "number"  -> [finite |-> TRUE, n |-> v.n]
    [] v.t = "null"    -> [finite |-> TRUE, n |-> 0]
    [] v.t = "boolean" -> [finite |-> TRUE, n |-> v.n]
    [] v.t = "string"  -> StringToNumber(v.s)
    [] OTHER           -> [finite |-> FALSE, n |-> 0]

FuseMaxOfNoClamp(c) ==
  LET x == Number(c.fuseMaxQueued)
  IN  IF x.finite THEN x.n + 1 ELSE Max2(FuseMin, FuseDefault)

\* the effective fuse threshold of the admission handler
FuseMaxOf(c) ==
  LET x == Number(c.fuseMaxQueued)
  IN  IF x.finite THEN Max2(FuseMin, x.n) ELSE FuseDefault

\* resetAutoUploadStatsLater: arms the one-shot timer
resetAutoUploadStatsLater(m, t, delayMs) ==
  [m EXCEPT !.timers = @ \cup {[tab |-> t, due |-> now + delayMs, delay |-> delayMs]}]

\* the whole list is sent as the preview
queuePreviewFromTabWhole(m, t) == getAutoPendingIds(m, t).pend[t]

\* queuePreviewFromTab (creates the pendingIds entry through getAutoPendingIds)
queuePreviewFromTab(m, t) == Take(getAutoPendingIds(m, t).pend[t], PreviewLen)

\* sendAutoUploadProgress: the message handed to chrome.tabs.sendMessage;
\* o is the stats object the caller reads queued/done/ok/error from
ProgressMsg(m, t, phase, a, o) ==
  [ phase |-> phase, tab |-> t, att |-> a, at |-> now,
    queued |-> m.heap[o].queued, done |-> m.heap[o].done,
    ok |-> m.heap[o].ok, error |-> m.heap[o].error,
    paused |-> m.paused[t], queue |-> queuePreviewFromTab(m, t) ]

\* sendAutoUploadProgress: its effect on the maps
sendAutoUploadProgress(m, t) == getAutoPendingIds(m, t)

\* only the pendingIds are deleted
ClearOnDrainKeepsPaused(m, t) ==
  [m EXCEPT !.pendHas[t] = FALSE, !.pend[t] = << >>]

\* the done >= queued branch shared by the three terminal paths:
\* __autoUploadPausedByTab.delete, __autoUploadPendingIdsByTab.delete
ClearOnDrain(m, t) ==
  [m EXCEPT !.paused[t] = FALSE, !.pendHas[t] = FALSE, !.pend[t] = << >>]

Finish(r, resp) ==
  [r EXCEPT !.pc = "done", !.st = 0, !.prev = 0, !.markedSeen = FALSE, !.resp = resp]

\* the cancellation is counted as an error as well
CatchCancelledAsError(m, H, r) ==
  LET t  == r.tab
      a  == r.att
      m1 == IF r.markedSeen THEN unmarkAutoProcessed(m, t, a) ELSE m
      m2 == dequeueAutoPendingId(m1, t, a)
      m3 == getAutoUploadStats(m2, H, t)
      o  == m3.stats[t]
      m4 == [m3 EXCEPT !.heap[o].done = @ + 1, !.heap[o].error = @ + 1, !.heap[o].lastAt = now]
      m5 == sendAutoUploadProgress(m4, t)
  IN  [ m  |-> m5,
        r  |-> [r EXCEPT !.pc = "cisend", !.st = o, !.em = @ \cup {"cancelled_item"}],
        ev |-> <<ProgressMsg(m4, t, "cancelled_item", a, o)>> ]

\* catch (err) with err.message === "AUTO_UPLOAD_CANCELLED", up to the first await
CatchCancelled(m, H, r) ==
  LET t  == r.tab
      a  == r.att
      m1 == IF r.markedSeen THEN unmarkAutoProcessed(m, t, a) ELSE m
      m2 == dequeueAutoPendingId(m1, t, a)
      m3 == getAutoUploadStats(m2, H, t)
      o  == m3.stats[t]
      m4 == [m3 EXCEPT !.heap[o].done = @ + 1, !.heap[o].lastAt = now]
      m5 == sendAutoUploadProgress(m4, t)
  IN  [ m  |-> m5,
        r  |-> [r EXCEPT !.pc = "cisend", !.st = o, !.em = @ \cup {"cancelled_item"}],
        ev |-> <<ProgressMsg(m4, t, "cancelled_item", a, o)>> ]

\* the failure is reported but the error counter is left alone
CatchErrorNoCount(m, H, r) ==
  LET t  == r.tab
      a  == r.att
      m1 == IF r.markedSeen THEN unmarkAutoProcessed(m, t, a) ELSE m
      m2 == dequeueAutoPendingId(m1, t, a)
      m3 == getAutoUploadStats(m2, H, t)
      o  == m3.stats[t]
      m4 == [m3 EXCEPT !.heap[o].done = @ + 1, !.heap[o].lastAt = now]
      m5 == sendAutoUploadProgress(m4, t)
  IN  [ m  |-> m5,
        r  |-> [r EXCEPT !.pc = "eisend", !.st = o, !.em = @ \cup {"error_item"}],
        ev |-> <<ProgressMsg(m4, t, "error_item", a, o)>> ]

\* catch (err), any other error, up to the first await
CatchError(m, H, r) ==
  LET t  == r.tab
      a  == r.att
      m1 == IF r.markedSeen THEN unmarkAutoProcessed(m, t, a) ELSE m
      m2 == dequeueAutoPendingId(m1, t, a)
      m3 == getAutoUploadStats(m2, H, t)
      o  == m3.stats[t]
      m4 == [m3 EXCEPT !.heap[o].done = @ + 1, !.heap[o].error = @ + 1, !.heap[o].lastAt = now]
      m5 == sendAutoUploadProgress(m4, t)
  IN  [ m  |-> m5,
        r  |-> [r EXCEPT !.pc = "eisend", !.st = o, !.em = @ \cup {"error_item"}],
        ev |-> <<ProgressMsg(m4, t, "error_item", a, o)>> ]

\* the job promise rejects: the next job of the chain may start
ThrowCancelled(m, H, r) == CatchCancelled(m, H, [r EXCEPT !.settled = "rej"])

ThrowError(m, H, r) == CatchError(m, H, [r EXCEPT !.settled = "rej"])

\* number of admissions accepted so far, plus one
NextSeq(H) == 1 + Cardinality({h \in DOMAIN H : H[h].seq > 0})

\* the handler from `const st = getAutoUploadStats(tabId)` to the first await
\* the fuse test of an admission with stats s: line 3253 with st.queued
\* replaced by the number of jobs not yet finished
SafetyFuseOutstanding(c, s, fuseMax) == c.fuseEnabled /\ s.queued - s.done >= fuseMax

\* line 3253: fuseEnabled && Number(st.queued || 0) >= fuseMax
SafetyFuse(c, s, fuseMax) == c.fuseEnabled /\ s.queued >= fuseMax

AdmitSync(m, H, r, c) ==
  LET t   == r.tab
      a   == r.att
      m1  == getAutoUploadStats(m, H, t)
      o   == m1.stats[t]
      s   == m1.heap[o]
      settled == s.done >= s.queued
      stale   == (now - s.lastAt) > StaleMs
      refusedCancelled == m1.cancel[t] /\ ~(settled \/ stale)
      m2  == [m1 EXCEPT !.cancel[t] = FALSE]
      m3  == EvictSeen(m2, t)
      fuseMax == FuseMaxOf(c)
      m4  == [m3 EXCEPT !.cancel[t] = TRUE, !.paused[t] = FALSE,
                        !.pendHas[t] = FALSE, !.pend[t] = << >>]
      m5  == [m3 EXCEPT !.heap[o].queued = @ + 1]
      m6  == enqueueAutoPendingId(m5, t, a)
  IN  IF ~c.enabled
        THEN [m |-> m, r |-> Finish(r, "disabled"), ev |-> << >>]
      ELSE IF refusedCancelled
        THEN [m |-> m1, r |-> Finish(r, "cancelled"), ev |-> << >>]
      ELSE IF wasRecentlyAutoProcessed(m3, t, a)
        THEN [m |-> m3, r |-> Finish(r, "duplicate"), ev |-> << >>]
      ELSE IF SafetyFuse(c, s, fuseMax)
        THEN [ m  |-> sendAutoUploadProgress(m4, t),
               r  |-> Finish([r EXCEPT !.em = @ \cup {"safety_stop"}], "safety_fuse"),
               ev |-> <<ProgressMsg(m4, t, "safety_stop", a, o)>> ]
      ELSE [ m  |-> sendAutoUploadProgress(m6, t),
             r  |-> [r EXCEPT !.pc = "qsend", !.st = o, !.seq = NextSeq(H), !.at = now,
                              !.em = @ \cup {"queued"}],
             ev |-> <<ProgressMsg(m6, t, "queued", a, o)>> ]

\* enqueueAutoUploadJob
enqueueAutoUploadJob(m, r, h) ==
  [ m |-> [m EXCEPT !.queue[r.tab] = h],
    r |-> [r EXCEPT !.pc = "chain", !.prev = m.queue[r.tab]] ]

\* markAutoProcessed; markedSeen = true; await enqueueAutoUploadJob(...)
AfterQueuedSent(m, r, h) ==
  enqueueAutoUploadJob(markAutoProcessed(m, r.tab, r.att), [r EXCEPT !.markedSeen = TRUE], h)

\* ------------------------------------------------------------- state steps
\* A stats object that neither the map nor a handler refers to is garbage.
Norm(m, H) ==
  [m EXCEPT !.heap =
     [o \in DOMAIN m.heap |->
                     IF (\E t \in DOMAIN m.stats : m.stats[t] = o) \/ (\E h \in DOMAIN H : H[h].st = o)
                     THEN m.heap[o] ELSE ZeroStats]]

Commit(m, H, ev) ==
  \E mv \in {Norm(m, H)}, Hv \in {H}, evv \in {ev} :
    /\ mem' = mv
    /\ hs' = Hv
    /\ events' = IF logging THEN events \o evv ELSE events

CommitStep(h, res) == \E rv \in {res} : Commit(rv.m, [hs EXCEPT ![h] = rv.r], rv.ev)

NextHandler == Min({h \in Handlers : hs[h].pc = "idle"})

\* The message arrives: lines 3215-3229 and getConfigCached (1420-1435).
\* With a populated cache `await getConfigCached()` resumes in the same
\* task, so the handler runs on to its first send; with an empty cache it
\* waits for the storage read shared through _cfgCachePromise.
Receive(t, a, img, wp) ==
  /\ \E h \in Handlers : hs[h].pc = "idle"
  /\ t \notin closed
  /\ LET h == NextHandler
         r == [hs[h] EXCEPT !.tab = t, !.att = a, !.rcv = Len(events)]
     IN  IF t = NoTab \/ a = NoAtt \/ ~img
           THEN CommitStep(h, CatchError(mem, hs, r))
         ELSE IF ~wp
           THEN CommitStep(h, [m |-> mem, r |-> Finish(r, "non_wp"), ev |-> << >>])
         ELSE IF cfgCache # << >>
           THEN CommitStep(h, AdmitSync(mem, hs, r, cfgCache[1]))
         ELSE CommitStep(h, [m |-> mem, r |-> [r EXCEPT !.pc = "cfg"], ev |-> << >>])
  /\ UNCHANGED <<now, ticks, cfgCache, closed, pauseReq, logging, obs>>

\* the handlers awaiting _cfgCachePromise resume in the order they called
\* getConfigCached, each running to its first send before the next resumes
RECURSIVE AdmitWaiting(_, _, _)
AdmitWaiting(w, k, c) ==
  IF k \notin DOMAIN w.H THEN w
  ELSE IF w.H[k].pc # "cfg" THEN AdmitWaiting(w, k + 1, c)
  ELSE LET res == AdmitSync(w.m, w.H, w.H[k], c)
       IN  AdmitWaiting([m |-> res.m, H |-> [w.H EXCEPT ![k] = res.r], ev |-> w.ev \o res.ev],
                        k + 1, c)

\* the same for a rejected _cfgCachePromise: each waiting handler's catch block
RECURSIVE RejectWaiting(_, _)
RejectWaiting(w, k) ==
  IF k \notin DOMAIN w.H THEN w
  ELSE IF w.H[k].pc # "cfg" THEN RejectWaiting(w, k + 1)
  ELSE LET res == CatchError(w.m, w.H, w.H[k])
       IN  RejectWaiting([m |-> res.m, H |-> [w.H EXCEPT ![k] = res.r], ev |-> w.ev \o res.ev],
                         k + 1)

\* readConfigFromStorage() resolves with c: _cfgCache = cfg (line 1426), and
\* the waiting handlers continue with lines 3230-3284.
CfgRead(c) ==
  /\ \E h \in Handlers : hs[h].pc = "cfg"
  /\ cfgCache' = <<c>>
  /\ LET w == AdmitWaiting([m |-> mem, H |-> hs, ev |-> << >>], 1, c)
     IN  Commit(w.m, w.H, w.ev)
  /\ UNCHANGED <<now, ticks, closed, pauseReq, logging, obs>>

\* readConfigFromStorage() rejects: the cache stays empty and every waiting
\* handler enters its catch block, lines 3403-3417.
CfgReadFails ==
  /\ \E h \in Handlers : hs[h].pc = "cfg"
  /\ LET w == RejectWaiting([m |-> mem, H |-> hs, ev |-> << >>], 1)
     IN  Commit(w.m, w.H, w.ev)
  /\ UNCHANGED <<now, ticks, cfgCache, closed, pauseReq, logging, obs>>

\* chrome.storage.onChanged, lines 1438-1480: a populated cache is emptied
\* (key syncApiKey, v = << >>) or updated in place (any other option key).
StorageChanged(v) ==
  /\ cfgCache # << >>
  /\ v # cfgCache
  /\ cfgCache' = v
  /\ UNCHANGED <<now, ticks, mem, hs, closed, pauseReq, logging, events, obs>>

\* The 'queued' progress send settles: lines 3286-3289.
QueuedSent(h) ==
  /\ hs[h].pc = "qsend"
  /\ LET res == AfterQueuedSent(mem, hs[h], h)
     IN  CommitStep(h, [m |-> res.m, r |-> res.r, ev |-> << >>])
  /\ UNCHANGED <<now, ticks, cfgCache, closed, pauseReq, logging, obs>>

\* prev.then(jobFn): the job runs only after a fulfilled predecessor
PrevSettledFulfilled(h) == IF hs[h].prev = 0 THEN TRUE ELSE hs[hs[h].prev].settled = "ok"

\* prev.catch(() => {}).then(jobFn): the previous job promise has settled
PrevSettled(h) == IF hs[h].prev = 0 THEN TRUE ELSE hs[hs[h].prev].settled # "no"

\* the job body from a point where the paused flag is not set:
\* the cancel check after waitIfAutoUploadPaused, then `await addDebugLog`
PastPause(m, r) ==
  IF m.cancel[r.tab] THEN ThrowCancelled(m, hs, r)
  ELSE [m |-> m, r |-> [r EXCEPT !.pc = "log1"], ev |-> << >>]

\* The job body starts: lines 3290-3297 and waitIfAutoUploadPaused.
JobStart(h) ==
  /\ hs[h].pc = "chain"
  /\ PrevSettled(h)
  /\ LET r == hs[h]
     IN  IF mem.cancel[r.tab] THEN CommitStep(h, ThrowCancelled(mem, hs, r))
         ELSE IF mem.paused[r.tab]
           THEN CommitStep(h, [m |-> mem, r |-> [r EXCEPT !.pc = "pausewait"], ev |-> << >>])
         ELSE CommitStep(h, PastPause(mem, r))
  /\ UNCHANGED <<now, ticks, cfgCache, closed, pauseReq, logging, obs>>

\* The 150 ms timeout of waitIfAutoUploadPaused fires and the loop leaves the
\* wait (while the flag is still set and no cancel is requested it re-arms).
PauseWake(h) ==
  /\ hs[h].pc = "pausewait"
  /\ LET r == hs[h]
     IN  /\ ~mem.paused[r.tab] \/ mem.cancel[r.tab]
         /\ IF mem.paused[r.tab] THEN CommitStep(h, ThrowCancelled(mem, hs, r))
            ELSE CommitStep(h, PastPause(mem, r))
  /\ UNCHANGED <<now, ticks, cfgCache, closed, pauseReq, logging, obs>>

\* addDebugLog("auto_upload_start") settles: 'processing' is sent, lines 3298-3305.
StartLogged(h) ==
  /\ hs[h].pc = "log1"
  /\ LET r == hs[h]
     IN  CommitStep(h, [ m  |-> sendAutoUploadProgress(mem, r.tab),
                         r  |-> [r EXCEPT !.pc = "psend", !.em = @ \cup {"processing"}],
                         ev |-> <<ProgressMsg(mem, r.tab, "processing", r.att, r.st)>> ])
  /\ UNCHANGED <<now, ticks, cfgCache, closed, pauseReq, logging, obs>>

\* The 'processing' send settles: analyzeImage is called, line 3307.
ProcessingSent(h) ==
  /\ hs[h].pc = "psend"
  /\ CommitStep(h, [m |-> mem, r |-> [hs[h] EXCEPT !.pc = "analyze"], ev |-> << >>])
  /\ UNCHANGED <<now, ticks, cfgCache, closed, pauseReq, logging, obs>>

\* analyzeImage settles: lines 3315-3328 (first applier attempt is sent).
AnalyzeDone(h, fulfilled) ==
  /\ hs[h].pc = "analyze"
  /\ LET r == hs[h]
     IN  IF ~fulfilled THEN CommitStep(h, ThrowError(mem, hs, r))
         ELSE IF mem.cancel[r.tab] THEN CommitStep(h, ThrowCancelled(mem, hs, r))
         ELSE CommitStep(h, [m |-> mem, r |-> [r EXCEPT !.pc = "apply"], ev |-> << >>])
  /\ UNCHANGED <<now, ticks, cfgCache, closed, pauseReq, logging, obs>>

\* the job counts itself ok but not done
MarkDoneOkOnly(m, r) ==
  LET o  == r.st
      m1 == [m EXCEPT !.heap[o].ok = @ + 1, !.heap[o].lastAt = now]
      m2 == dequeueAutoPendingId(m1, r.tab, r.att)
  IN  [ m  |-> sendAutoUploadProgress(m2, r.tab),
        r  |-> [r EXCEPT !.pc = "dsend", !.em = @ \cup {"done_item"}],
        ev |-> <<ProgressMsg(m2, r.tab, "done_item", r.att, o)>> ]

\* lines 3340-3351: the job counts itself done and ok and sends done_item
MarkDone(m, r) ==
  LET o  == r.st
      m1 == [m EXCEPT !.heap[o].done = @ + 1, !.heap[o].ok = @ + 1, !.heap[o].lastAt = now]
      m2 == dequeueAutoPendingId(m1, r.tab, r.att)
  IN  [ m  |-> sendAutoUploadProgress(m2, r.tab),
        r  |-> [r EXCEPT !.pc = "dsend", !.em = @ \cup {"done_item"}],
        ev |-> <<ProgressMsg(m2, r.tab, "done_item", r.att, o)>> ]

\* autoApplyAttachmentWithRetry settles: lines 3328-3351.  applied is its
\* result's ok; the retry loop inside it touches none of the per-tab maps.
\* The optional MACA_DESELECT_ATTACHMENT send changes no state of this module
\* and is not a separate position.
ApplySettled(h, applied) ==
  /\ hs[h].pc = "apply"
  /\ LET r == hs[h]
     IN  IF applied THEN CommitStep(h, MarkDone(mem, r))
         ELSE CommitStep(h, ThrowError(mem, hs, r))
  /\ UNCHANGED <<now, ticks, cfgCache, closed, pauseReq, logging, obs>>

\* The done_item send settles: lines 3352-3362.
DoneItemSent(h) ==
  /\ hs[h].pc = "dsend"
  /\ LET r  == hs[h]
         o  == r.st
         m1 == ClearOnDrain(mem, r.tab)
     IN  IF mem.heap[o].done >= mem.heap[o].queued
           THEN CommitStep(h, [ m  |-> sendAutoUploadProgress(m1, r.tab),
                                r  |-> [r EXCEPT !.pc = "dasend", !.em = @ \cup {"done_all"}],
                                ev |-> <<ProgressMsg(m1, r.tab, "done_all", r.att, o)>> ])
         ELSE CommitStep(h, [m |-> mem, r |-> [r EXCEPT !.pc = "log2"], ev |-> << >>])
  /\ UNCHANGED <<now, ticks, cfgCache, closed, pauseReq, logging, obs>>

\* The done_all send settles: line 3363.
DoneAllSent(h) ==
  /\ hs[h].pc = "dasend"
  /\ CommitStep(h, [ m  |-> resetAutoUploadStatsLater(mem, hs[h].tab, DelayDoneAll),
                     r  |-> [hs[h] EXCEPT !.pc = "log2"], ev |-> << >> ])
  /\ UNCHANGED <<now, ticks, cfgCache, closed, pauseReq, logging, obs>>

\* addDebugLog("auto_upload_done") settles: the job promise fulfils, line 3369.
EndLogged(h) ==
  /\ hs[h].pc = "log2"
  /\ CommitStep(h, [m |-> mem, r |-> Finish([hs[h] EXCEPT !.settled = "ok"], "ok"), ev |-> << >>])
  /\ UNCHANGED <<now, ticks, cfgCache, closed, pauseReq, logging, obs>>

\* The cancelled_item send settles: lines 3385-3395, or 3399 when not drained.
CancelItemSent(h) ==
  /\ hs[h].pc = "cisend"
  /\ LET r  == hs[h]
         o  == r.st
         m1 == ClearOnDrain(mem, r.tab)
     IN  IF mem.heap[o].done >= mem.heap[o].queued
           THEN CommitStep(h, [ m  |-> sendAutoUploadProgress(m1, r.tab),
                                r  |-> [r EXCEPT !.pc = "ctsend", !.em = @ \cup {"cancelled"}],
                                ev |-> <<ProgressMsg(m1, r.tab, "cancelled", r.att, o)>> ])
         ELSE CommitStep(h, [m |-> mem, r |-> Finish(r, "cancelled"), ev |-> << >>])
  /\ UNCHANGED <<now, ticks, cfgCache, closed, pauseReq, logging, obs>>

\* The cancelled send settles: lines 3396-3400.
CancelledSent(h) ==
  /\ hs[h].pc = "ctsend"
  /\ LET r  == hs[h]
         m1 == [mem EXCEPT !.cancel[r.tab] = FALSE]
     IN  CommitStep(h, [ m  |-> resetAutoUploadStatsLater(m1, r.tab, DelayCancelled),
                         r  |-> Finish(r, "cancelled"), ev |-> << >> ])
  /\ UNCHANGED <<now, ticks, cfgCache, closed, pauseReq, logging, obs>>

\* The error_item send settles: lines 3418-3428, or 3431-3440 when not drained.
ErrorItemSent(h) ==
  /\ hs[h].pc = "eisend"
  /\ LET r  == hs[h]
         o  == r.st
         m1 == ClearOnDrain(mem, r.tab)
     IN  IF mem.heap[o].done >= mem.heap[o].queued
           THEN CommitStep(h, [ m  |-> sendAutoUploadProgress(m1, r.tab),
                                r  |-> [r EXCEPT !.pc = "easend", !.em = @ \cup {"done_all"}],
                                ev |-> <<ProgressMsg(m1, r.tab, "done_all", r.att, o)>> ])
         ELSE CommitStep(h, [m |-> mem, r |-> Finish(r, "error"), ev |-> << >>])
  /\ UNCHANGED <<now, ticks, cfgCache, closed, pauseReq, logging, obs>>

\* The done_all send of the error path settles: lines 3429-3440.
ErrorAllSent(h) ==
  /\ hs[h].pc = "easend"
  /\ CommitStep(h, [ m  |-> resetAutoUploadStatsLater(mem, hs[h].tab, DelayErrorAll),
                     r  |-> Finish(hs[h], "error"), ev |-> << >> ])
  /\ UNCHANGED <<now, ticks, cfgCache, closed, pauseReq, logging, obs>>

\* The callback of resetAutoUploadStatsLater runs: lines 2045-2051.
statsResetCallback(m, tm) ==
  LET o == m.stats[tm.tab]
  IN  IF o = 0 THEN m
      ELSE IF (now - m.heap[o].lastAt) < (tm.delay - KeepSlackMs) THEN m
      ELSE [m EXCEPT !.stats[tm.tab] = 0]

TimerFire(tm) ==
  /\ tm \in mem.timers
  /\ now >= tm.due
  /\ Commit(statsResetCallback([mem EXCEPT !.timers = @ \ {tm}], tm), hs, << >>)
  /\ UNCHANGED <<now, ticks, cfgCache, closed, pauseReq, logging, obs>>

\* positions that wait for analyzeImage, the applier retries, the pause poll
\* or the previous job; every other await is a storage or message round trip
LongWaits == {"idle", "done", "chain", "pausewait", "analyze", "apply"}

\* the handler's wait ends within milliseconds: a job whose predecessor in the
\* chain has settled starts in a microtask, and the 150 ms poll of
\* waitIfAutoUploadPaused leaves the loop once the tab is not paused or a
\* cancel is requested
AboutToRun(h) ==
  \/ hs[h].pc = "chain" /\ PrevSettled(h)
  \/ hs[h].pc = "pausewait" /\ (~mem.paused[hs[h].tab] \/ mem.cancel[hs[h].tab])

\* Time passes by d ms (seconds at least), but not beyond the next timer that
\* is due, and not while a handler waits for a round trip of milliseconds.
Tick(d) ==
  /\ ticks > 0
  /\ \A h \in Handlers : hs[h].pc \in LongWaits /\ ~AboutToRun(h)
  /\ \A tm \in mem.timers : tm.due > now
  /\ now' = Min({now + d} \cup {tm.due : tm \in mem.timers})
  /\ ticks' = ticks - 1
  /\ UNCHANGED <<cfgCache, mem, hs, closed, pauseReq, logging, events, obs>>

\* the cancel flag stays set when the queue is already drained
cancelHandlerKeepsFlag(m, t) ==
  LET m1 == [m EXCEPT !.cancel[t] = TRUE, !.paused[t] = FALSE]
      m2 == getAutoUploadStats(m1, hs, t)
      o  == m2.stats[t]
      drained == m2.heap[o].done >= m2.heap[o].queued
  IN  [ m  |-> sendAutoUploadProgress(m2, t),
        ev |-> <<ProgressMsg(m2, t, IF drained THEN "cancelled" ELSE "cancel_request", NoAtt, o)>> ]

\* the cancel flag is set for every tab
cancelHandlerAllTabs(m, t) ==
  LET m1 == [m EXCEPT !.cancel = [u \in DOMAIN m.cancel |-> TRUE], !.paused[t] = FALSE]
      m2 == getAutoUploadStats(m1, hs, t)
      o  == m2.stats[t]
      drained == m2.heap[o].done >= m2.heap[o].queued
      m3 == IF drained THEN [m2 EXCEPT !.cancel[t] = FALSE] ELSE m2
  IN  [ m  |-> sendAutoUploadProgress(m3, t),
        ev |-> <<ProgressMsg(m3, t, IF drained THEN "cancelled" ELSE "cancel_request", NoAtt, o)>> ]

\* MACA_AUTO_UPLOAD_CANCEL: lines 3446-3465.
cancelHandler(m, t) ==
  LET m1 == [m EXCEPT !.cancel[t] = TRUE, !.paused[t] = FALSE]
      m2 == getAutoUploadStats(m1, hs, t)
      o  == m2.stats[t]
      drained == m2.heap[o].done >= m2.heap[o].queued
      m3 == IF drained THEN [m2 EXCEPT !.cancel[t] = FALSE] ELSE m2
  IN  [ m  |-> sendAutoUploadProgress(m3, t),
        ev |-> <<ProgressMsg(m3, t, IF drained THEN "cancelled" ELSE "cancel_request", NoAtt, o)>> ]

Cancel(t) ==
  /\ t \in Tabs \ closed
  /\ LET res == cancelHandler(mem, t) IN Commit(res.m, hs, res.ev)
  /\ pauseReq' = [pauseReq EXCEPT ![t] = FALSE]
  /\ UNCHANGED <<now, ticks, cfgCache, closed, logging, obs>>

\* the progress message is sent only when the tab has a stats entry
pauseHandlerOnlyWithJobs(m, t) ==
  LET m1 == [m EXCEPT !.paused[t] = TRUE]
      m2 == getAutoUploadStats(m1, hs, t)
  IN  [ m  |-> sendAutoUploadProgress(m2, t),
        ev |-> IF m.stats[t] = 0 THEN << >>
               ELSE <<ProgressMsg(m2, t, "paused", NoAtt, m2.stats[t])>> ]

\* MACA_AUTO_UPLOAD_PAUSE: lines 3467-3482.
pauseHandler(m, t) ==
  LET m1 == [m EXCEPT !.paused[t] = TRUE]
      m2 == getAutoUploadStats(m1, hs, t)
  IN  [ m  |-> sendAutoUploadProgress(m2, t),
        ev |-> <<ProgressMsg(m2, t, "paused", NoAtt, m2.stats[t])>> ]

Pause(t) ==
  /\ t \in Tabs \ closed
  /\ LET res == pauseHandler(mem, t) IN Commit(res.m, hs, res.ev)
  /\ pauseReq' = [pauseReq EXCEPT ![t] = TRUE]
  /\ UNCHANGED <<now, ticks, cfgCache, closed, logging, obs>>

\* MACA_AUTO_UPLOAD_RESUME: lines 3484-3499.
resumeHandler(m, t) ==
  LET m1 == [m EXCEPT !.paused[t] = FALSE]
      m2 == getAutoUploadStats(m1, hs, t)
  IN  [ m  |-> sendAutoUploadProgress(m2, t),
        ev |-> <<ProgressMsg(m2, t, "resumed", NoAtt, m2.stats[t])>> ]

Resume(t) ==
  /\ t \in Tabs \ closed
  /\ LET res == resumeHandler(mem, t) IN Commit(res.m, hs, res.ev)
  /\ pauseReq' = [pauseReq EXCEPT ![t] = FALSE]
  /\ UNCHANGED <<now, ticks, cfgCache, closed, logging, obs>>

\* chrome.tabs.onRemoved: lines 2266-2278.
tabRemovedHandler(m, t) ==
  [m EXCEPT !.queue[t] = 0, !.seenHas[t] = FALSE,
            !.seen[t] = [a \in DOMAIN m.seen[t] |-> -1], !.stats[t] = 0,
            !.cancel[t] = FALSE, !.paused[t] = FALSE, !.pendHas[t] = FALSE, !.pend[t] = << >>,
            !.batchCancel[t] = "none", !.batchAbort[t] = 0]

TabRemoved(t) ==
  /\ t \in Tabs \ closed
  /\ Commit(tabRemovedHandler(mem, t), hs, << >>)
  /\ closed' = closed \cup {t}
  /\ pauseReq' = [pauseReq EXCEPT ![t] = FALSE]
  /\ UNCHANGED <<now, ticks, cfgCache, logging, obs>>

\* no page with a content script takes part in the behaviour
NoObserver == << >>

\* ------------------------------------------------------------ specification
InitWorker(nMsgs, nTabs, nAtts, nTicks, log) ==
  /\ now = 1
  /\ ticks = nTicks
  /\ mem = InitMem(nMsgs, nTabs, nAtts)
  /\ hs = [h \in 1..nMsgs |-> IdleHandler]
  /\ closed = {}
  /\ pauseReq = [t \in 1..nTabs |-> FALSE]
  /\ cfgCache = << >>
  /\ logging = log
  /\ events = << >>

InitWith(nMsgs, nTabs, nAtts, nTicks, log) ==
  /\ InitWorker(nMsgs, nTabs, nAtts, nTicks, log)
  /\ obs = NoObserver

\* configurations getConfigCached() can return
DefaultCfg == [enabled |-> TRUE, fuseEnabled |-> TRUE, fuseMaxQueued |-> JsNum(24)]

Cfgs == {DefaultCfg, [DefaultCfg EXCEPT !.enabled = FALSE]}

\* clock advances: to a moment inside every grace period, and beyond the
\* dedup TTL (Tick stops at the next reset timer that is due)
TickSteps == {DelayCancelled \div 2, TtlMs + 1}

\* messages: without tab, without attachment id, without image URL,
\* from a page outside wp-admin, and well-formed ones
Msgs ==
  {[tab |-> NoTab, att |-> NoAtt, img |-> FALSE, wp |-> FALSE]}
  \cup {[tab |-> t, att |-> NoAtt, img |-> TRUE, wp |-> TRUE] : t \in Tabs}
  \cup {[tab |-> t, att |-> 1, img |-> i, wp |-> ~i] : t \in Tabs, i \in BOOLEAN}
  \cup {[tab |-> t, att |-> a, img |-> TRUE, wp |-> TRUE] : t \in Tabs, a \in AttIds}

Init == InitWith(MaxMsgs, NumTabs, NumAtts, MaxTicks, FALSE)

Next ==
  \/ \E msg \in Msgs : Receive(msg.tab, msg.att, msg.img, msg.wp)
  \/ \E c \in Cfgs : CfgRead(c)
  \/ CfgReadFails
  \/ \E v \in {<< >>} \cup {<<c>> : c \in Cfgs} : StorageChanged(v)
  \/ \E h \in Handlers : QueuedSent(h)
  \/ \E h \in Handlers : JobStart(h)
  \/ \E h \in Handlers : PauseWake(h)
  \/ \E h \in Handlers : StartLogged(h)
  \/ \E h \in Handlers : ProcessingSent(h)
  \/ \E h \in Handlers, f \in BOOLEAN : AnalyzeDone(h, f)
  \/ \E h \in Handlers, ap \in BOOLEAN : ApplySettled(h, ap)
  \/ \E h \in Handlers : DoneItemSent(h)
  \/ \E h \in Handlers : DoneAllSent(h)
  \/ \E h \in Handlers : EndLogged(h)
  \/ \E h \in Handlers : CancelItemSent(h)
  \/ \E h \in Handlers : CancelledSent(h)
  \/ \E h \in Handlers : ErrorItemSent(h)
  \/ \E h \in Handlers : ErrorAllSent(h)
  \/ \E tm \in mem.timers : TimerFire(tm)
  \/ \E d \in TickSteps : Tick(d)
  \/ \E t \in Tabs : Cancel(t)
  \/ \E t \in Tabs : Pause(t)
  \/ \E t \in Tabs : Resume(t)
  \/ \E t \in Tabs : TabRemoved(t)

Spec == Init /\ [][Next]_vars

\* ------------------------------------------------------------------ claims
\* positions of a handler whose job body is executing (started, not settled)
BodyPcs == {"pausewait", "log1", "psend", "analyze", "apply", "dsend", "dasend", "log2"}

Accepted(h) == hs[h].seq > 0

BodyBegun(h) == hs[h].pc \in BodyPcs \/ hs[h].settled # "no"

JobSettled(h) == hs[h].settled # "no"

EndedBadly(h) == hs[h].em \cap {"error_item", "cancelled_item"} # {}

\* C1 (dedup, P1): two admissions of the same tab and attachment id made
\* within the TTL window never both enqueue a job, unless one of the jobs
\* ended in error or cancellation.
C1_Dedup ==
  \A a \in Handlers, b \in Handlers :
    ( /\ a # b
      /\ Accepted(a) /\ Accepted(b)
      /\ hs[a].tab = hs[b].tab /\ hs[a].att = hs[b].att
      /\ hs[a].seq < hs[b].seq
      /\ hs[b].at - hs[a].at <= TtlMs )
    => EndedBadly(a)

\* C2 (FIFO per tab, P2): of two jobs of one tab, the one admitted later does
\* not begin its body before the one admitted earlier has settled.
C2_Fifo ==
  \A a \in Handlers, b \in Handlers :
    ( /\ Accepted(a) /\ Accepted(b)
      /\ hs[a].tab = hs[b].tab
      /\ hs[a].seq < hs[b].seq
      /\ BodyBegun(b) )
    => JobSettled(a)

\* ---- C3
\* Well-formed messages only, no clock: the promise chain under every
\* interleaving of admissions, job outcomes, pause, resume, cancel, tab close.
InitMutex == InitWith(MutexMsgs, NumTabs, NumAtts, 0, FALSE)

NextMutex ==
  \/ \E t \in Tabs, a \in AttIds : Receive(t, a, TRUE, TRUE)
  \/ CfgRead(DefaultCfg)
  \/ \E h \in Handlers : QueuedSent(h)
  \/ \E h \in Handlers : JobStart(h)
  \/ \E h \in Handlers : PauseWake(h)
  \/ \E h \in Handlers : StartLogged(h)
  \/ \E h \in Handlers : ProcessingSent(h)
  \/ \E h \in Handlers, f \in BOOLEAN : AnalyzeDone(h, f)
  \/ \E h \in Handlers, ap \in BOOLEAN : ApplySettled(h, ap)
  \/ \E h \in Handlers : DoneItemSent(h)
  \/ \E h \in Handlers : DoneAllSent(h)
  \/ \E h \in Handlers : EndLogged(h)
  \/ \E h \in Handlers : CancelItemSent(h)
  \/ \E h \in Handlers : CancelledSent(h)
  \/ \E h \in Handlers : ErrorItemSent(h)
  \/ \E h \in Handlers : ErrorAllSent(h)
  \/ \E t \in Tabs : Cancel(t)
  \/ \E t \in Tabs : Pause(t)
  \/ \E t \in Tabs : Resume(t)
  \/ \E t \in Tabs : TabRemoved(t)

SpecMutex == InitMutex /\ [][NextMutex]_vars

InBody(t) == {h \in Handlers : hs[h].tab = t /\ hs[h].pc \in BodyPcs}

\* C3 as claimed: in every reachable state at most one job body of a tab
\* is executing.
C3_MutexAllTabs == \A t \in Tabs : Cardinality(InBody(t)) <= 1

\* The same restricted to tabs that have not been removed: at most one job
\* body is executing, and a job whose body has begun has a settled predecessor.
C3_MutexOpenTabs ==
  \A t \in Tabs \ closed :
    /\ Cardinality(InBody(t)) <= 1
    /\ \A h \in Handlers :
         (hs[h].tab = t /\ hs[h].pc \in BodyPcs /\ hs[h].prev # 0) => JobSettled(hs[h].prev)

\* a job body runs while another job of the same open tab waits behind a
\* predecessor that rejected or fulfilled
C3_Witness ==
  \E a \in Handlers, b \in Handlers :
    /\ hs[a].tab = hs[b].tab /\ hs[a].tab \notin closed
    /\ hs[b].pc \in BodyPcs /\ hs[b].prev = a /\ hs[a].settled = "rej"

\* ---- C4
\* The fuse scenario: the fuse is enabled with the configured maximum at its
\* minimum, and FuseMin + FuseExtra distinct candidates of tab 1 arrive in
\* rapid succession (no clock advance, no pause, cancel or tab close) while
\* the jobs run; analysis and applier succeed, so a job ends as done_item or,
\* once the fuse has set the cancel flag, as cancelled_item.
FuseCfg == [DefaultCfg EXCEPT !.fuseMaxQueued = JsNum(FuseMin)]

FuseMsgs == FuseMin + FuseExtra

InitFuse == InitWith(FuseMsgs, 1, FuseMsgs, 0, FALSE)

NextFuse ==
  \/ \E h \in Handlers : hs[h].pc = "idle" /\ h = NextHandler /\ Receive(1, h, TRUE, TRUE)
  \/ CfgRead(FuseCfg)
  \/ \E h \in Handlers : QueuedSent(h)
  \/ \E h \in Handlers : JobStart(h)
  \/ \E h \in Handlers : StartLogged(h)
  \/ \E h \in Handlers : ProcessingSent(h)
  \/ \E h \in Handlers : AnalyzeDone(h, TRUE)
  \/ \E h \in Handlers : ApplySettled(h, TRUE)
  \/ \E h \in Handlers : DoneItemSent(h)
  \/ \E h \in Handlers : DoneAllSent(h)
  \/ \E h \in Handlers : EndLogged(h)
  \/ \E h \in Handlers : CancelItemSent(h)
  \/ \E h \in Handlers : CancelledSent(h)

SpecFuse == InitFuse /\ [][NextFuse]_vars

Emitted(phase) == {h \in Handlers : phase \in hs[h].em}

\* handlers whose admission has been decided (past getConfigCached)
Decided == {h \in Handlers : hs[h].pc \notin {"idle", "cfg"}}

\* C4 (fuse, P3): once more than fuseMax distinct candidates of the tab
\* have been decided, a safety_stop has been emitted; and at most fuseMax
\* jobs ever emit 'processing'.
C4_Fuse ==
  /\ Cardinality(Decided) > FuseMin => Emitted("safety_stop") # {}
  /\ Cardinality(Emitted("processing")) <= FuseMin

\* the fuse has tripped after fuseMax jobs were admitted, and fuseMax of
\* them have emitted 'processing'
C4_Witness ==
  /\ Emitted("safety_stop") # {}
  /\ Cardinality(Emitted("queued")) = FuseMin
  /\ Cardinality(Emitted("processing")) = FuseMin

\* C5: every stats entry of the map satisfies done <= queued.
C5_DoneLeQueued ==
  \A t \in Tabs :
    mem.stats[t] # 0 => mem.heap[mem.stats[t]].done <= mem.heap[mem.stats[t]].queued

\* ---- C6
PastCheckpointPcs == {"log1", "psend", "analyze", "apply"}

ItemPhases == {"done_item", "error_item", "cancelled_item"}

C6_Step ==
  \A h \in Handlers :
    /\ (hs[h].pc \in {"chain", "pausewait"} /\ hs'[h].pc = "log1") => ~pauseReq[hs[h].tab]
    /\ ( /\ Accepted(h)
         /\ mem.paused[hs[h].tab]
         /\ (hs'[h].em \cap ItemPhases) # (hs[h].em \cap ItemPhases) )
       => hs[h].pc \in PastCheckpointPcs

\* C6 (pause/resume, P4): a job passes its pause checkpoint (and goes on to
\* analysis) only when no Pause is outstanding for its tab, and while the
\* paused flag is set only a job already past its checkpoint emits its item
\* event (the step that increments done).
C6_Pause == [][C6_Step]_vars

\* ---- C7
\* every handler invocation has returned
Quiet == \A h \in Handlers : hs[h].pc \in {"idle", "done"}

\* indices of the progress messages sent by the Cancel/Pause/Resume handlers
CommandEvents == {k \in 1..Len(events) : events[k].att = NoAtt}

CountAfter(k, phase) == Cardinality({j \in (k + 1)..Len(events) : events[j].phase = phase})

\* The cancel scenario: CancelMsgs distinct candidates of tab 1, analysis and
\* applier succeed, one Cancel at any moment; progress messages are recorded.
InitCancel == InitWith(CancelMsgs, 1, CancelMsgs, 0, TRUE)

NextCancel ==
  \/ \E h \in Handlers : hs[h].pc = "idle" /\ h = NextHandler /\ Receive(1, h, TRUE, TRUE)
  \/ CfgRead(DefaultCfg)
  \/ \E h \in Handlers : QueuedSent(h)
  \/ \E h \in Handlers : JobStart(h)
  \/ \E h \in Handlers : StartLogged(h)
  \/ \E h \in Handlers : ProcessingSent(h)
  \/ \E h \in Handlers : AnalyzeDone(h, TRUE)
  \/ \E h \in Handlers : ApplySettled(h, TRUE)
  \/ \E h \in Handlers : DoneItemSent(h)
  \/ \E h \in Handlers : DoneAllSent(h)
  \/ \E h \in Handlers : EndLogged(h)
  \/ \E h \in Handlers : CancelItemSent(h)
  \/ \E h \in Handlers : CancelledSent(h)
  \/ CommandEvents = {} /\ Cancel(1)

SpecCancel == InitCancel /\ [][NextCancel]_vars

\* C7 (cancel drains, P5): once every handler has returned, a cancel_request
\* reporting queued = q and done = d that no admission followed has been
\* followed by exactly q - d cancelled_item events and exactly one cancelled
\* event, which is the last event and reports done = queued = q.
C7_CancelDrains ==
  \A k \in 1..Len(events) :
    ( /\ events[k].phase = "cancel_request"
      /\ Quiet
      /\ \A h \in Handlers : hs[h].pc = "done" => hs[h].rcv < k
      /\ CountAfter(k, "queued") = 0 )
    => /\ CountAfter(k, "cancelled_item") = events[k].queued - events[k].done
       /\ CountAfter(k, "cancelled") = 1
       /\ events[Len(events)].phase = "cancelled"
       /\ events[Len(events)].queued = events[k].queued
       /\ events[Len(events)].done = events[k].queued

\* ---- C8
\* The settlement scenario: GraceMsgs distinct candidates of tab 1, analysis
\* and applier succeed, the clock advances, the reset timers fire, and at most
\* MaxCmds pause, resume or cancel commands arrive (a job blocked by a Pause
\* stays blocked: nothing clears the flag once the commands are used up).
InitGrace == InitWith(GraceMsgs, 1, GraceMsgs, GraceTicks, TRUE)

NextGrace ==
  \/ \E h \in Handlers : hs[h].pc = "idle" /\ h = NextHandler /\ Receive(1, h, TRUE, TRUE)
  \/ CfgRead(DefaultCfg)
  \/ \E h \in Handlers : QueuedSent(h)
  \/ \E h \in Handlers : JobStart(h)
  \/ \E h \in Handlers : StartLogged(h)
  \/ \E h \in Handlers : ProcessingSent(h)
  \/ \E h \in Handlers : AnalyzeDone(h, TRUE)
  \/ \E h \in Handlers : ApplySettled(h, TRUE)
  \/ \E h \in Handlers : DoneItemSent(h)
  \/ \E h \in Handlers : DoneAllSent(h)
  \/ \E h \in Handlers : EndLogged(h)
  \/ \E h \in Handlers : CancelItemSent(h)
  \/ \E h \in Handlers : CancelledSent(h)
  \/ \E tm \in mem.timers : TimerFire(tm)
  \/ \E d \in TickSteps : Tick(d)
  \/ Cardinality(CommandEvents) < MaxCmds /\ Cancel(1)
  \/ Cardinality(CommandEvents) < MaxCmds /\ Pause(1)
  \/ Cardinality(CommandEvents) < MaxCmds /\ Resume(1)

SpecGrace == InitGrace /\ [][NextGrace]_vars

\* event k is a done_all or cancelled sent by a job's handler
Terminal(k) == events[k].phase \in {"done_all", "cancelled"} /\ events[k].att # NoAtt

\* C8 (settlement, P6): when a job's handler has sent done_all or cancelled,
\* no admission message has arrived since and no command has arrived after
\* the shortest grace period, every handler has returned, the longest grace
\* period has elapsed and every reset timer has fired, the tab has no stats
\* entry; and the first admission accepted after such a terminal event and
\* grace period reports queued = 1 and done = 0.
C8_Settlement ==
  \A k \in 1..Len(events) : Terminal(k) =>
    /\ ( /\ \A h \in Handlers : hs[h].pc # "idle" => hs[h].rcv < k
         /\ \A c \in CommandEvents : events[c].at < events[k].at + DelayCancelled
         /\ Quiet
         /\ mem.timers = {}
         /\ now >= events[k].at + DelayErrorAll )
       => mem.stats[events[k].tab] = 0
    /\ \A j \in (k + 1)..Len(events) :
         ( /\ events[j].phase = "queued"
           /\ events[j].at >= events[k].at + DelayErrorAll
           /\ \A i \in (k + 1)..(j - 1) : events[i].phase # "queued" /\ ~Terminal(i) )
         => events[j].queued = 1 /\ events[j].done = 0

\* ---- C9
\* The happy-path scenario: ids 1..HappyMsgs of tab 1 are admitted in this
\* order with fuseMaxQueued = 10; every analysis and applier call succeeds;
\* no pause, cancel, tab close or clock advance.
HappyCfg == [DefaultCfg EXCEPT !.fuseMaxQueued = JsNum(10)]

InitHappy == InitWith(HappyMsgs, 1, HappyMsgs, 0, TRUE)

NextHappy ==
  \/ \E h \in Handlers : hs[h].pc = "idle" /\ h = NextHandler /\ Receive(1, h, TRUE, TRUE)
  \/ CfgRead(HappyCfg)
  \/ \E h \in Handlers : QueuedSent(h)
  \/ \E h \in Handlers : JobStart(h)
  \/ \E h \in Handlers : StartLogged(h)
  \/ \E h \in Handlers : ProcessingSent(h)
  \/ \E h \in Handlers : AnalyzeDone(h, TRUE)
  \/ \E h \in Handlers : ApplySettled(h, TRUE)
  \/ \E h \in Handlers : DoneItemSent(h)
  \/ \E h \in Handlers : DoneAllSent(h)
  \/ \E h \in Handlers : EndLogged(h)

SpecHappy == InitHappy /\ [][NextHappy]_vars

IsEvent(k, phase, a) ==
  k \in 1..Len(events) /\ events[k].phase = phase /\ events[k].att = a

AllReturned == \A h \in Handlers : hs[h].pc = "done"

\* C9 (happy-path trace): when the n admissions were all queued before the
\* first job started and every handler has returned, the recorded events are
\* queued(1..n), then processing(i), done_item(i) for i = 1..n in this order,
\* then one done_all with queued = done = ok = n and error = 0.
C9_HappyTrace ==
  LET n == Cardinality(Handlers)
  IN  (AllReturned /\ \A i \in 1..n : IsEvent(i, "queued", i))
      => /\ Len(events) = 3 * n + 1
         /\ \A i \in 1..n : /\ IsEvent(n + 2 * i - 1, "processing", i)
                            /\ IsEvent(n + 2 * i, "done_item", i)
         /\ events[3 * n + 1].phase = "done_all"
         /\ events[3 * n + 1].queued = n /\ events[3 * n + 1].done = n
         /\ events[3 * n + 1].ok = n /\ events[3 * n + 1].error = 0

\* ---- C10
\* The failure scenario: ids 1..FailMsgs of tab 1 are admitted in this order;
\* the job of id FailingAtt fails (analysis rejects, or the applier fails all
\* its attempts), every other job succeeds.
FailingAtt == 2

InitFail == InitWith(FailMsgs, 1, FailMsgs, 0, TRUE)

NextFail ==
  \/ \E h \in Handlers : hs[h].pc = "idle" /\ h = NextHandler /\ Receive(1, h, TRUE, TRUE)
  \/ CfgRead(DefaultCfg)
  \/ \E h \in Handlers : QueuedSent(h)
  \/ \E h \in Handlers : JobStart(h)
  \/ \E h \in Handlers : StartLogged(h)
  \/ \E h \in Handlers : ProcessingSent(h)
  \/ \E h \in Handlers, f \in BOOLEAN : (f \/ hs[h].att = FailingAtt) /\ AnalyzeDone(h, f)
  \/ \E h \in Handlers : ApplySettled(h, hs[h].att # FailingAtt)
  \/ \E h \in Handlers : DoneItemSent(h)
  \/ \E h \in Handlers : DoneAllSent(h)
  \/ \E h \in Handlers : EndLogged(h)
  \/ \E h \in Handlers : ErrorItemSent(h)
  \/ \E h \in Handlers : ErrorAllSent(h)

SpecFail == InitFail /\ [][NextFail]_vars

\* number of item events among the first k recorded events
ItemsUpTo(k) == Cardinality({j \in 1..k : events[j].phase \in ItemPhases})

\* C10 (failure containment): the failing job, and only it, emits error_item,
\* whose payload shows done and error each incremented by one (error = 1,
\* done = number of jobs finished so far); every other job that has returned
\* emitted done_item and no error_item; and when all have returned the stats
\* read done = n, ok = n - 1, error = 1.
C10_Containment ==
  /\ \A k \in 1..Len(events) :
       events[k].phase = "error_item"
         => events[k].att = FailingAtt /\ events[k].error = 1 /\ events[k].done = ItemsUpTo(k)
  /\ \A h \in Handlers :
       hs[h].pc = "done"
         => IF hs[h].att = FailingAtt
              THEN "error_item" \in hs[h].em /\ "done_item" \notin hs[h].em
              ELSE "done_item" \in hs[h].em /\ "error_item" \notin hs[h].em
  /\ AllReturned
       => /\ mem.stats[1] # 0
          /\ mem.heap[mem.stats[1]].done = Cardinality(Handlers)
          /\ mem.heap[mem.stats[1]].ok = Cardinality(Handlers) - 1
          /\ mem.heap[mem.stats[1]].error = 1

\* every handler has returned, id FailingAtt ended as error_item with
\* error = 1, and the jobs admitted before and after it ended as done_item
C10_Witness ==
  /\ AllReturned
  /\ \E k \in 1..Len(events) : IsEvent(k, "error_item", FailingAtt) /\ events[k].error = 1
  /\ \E k \in 1..Len(events) : IsEvent(k, "done_item", FailingAtt - 1)
  /\ \E k \in 1..Len(events) : IsEvent(k, "done_item", FailingAtt + 1)

\* ---- C11
\* the counters of the tab's stats entry in maps m (0 when there is no entry)
CounterOf(m, t, f) == IF m.stats[t] = 0 THEN 0 ELSE m.heap[m.stats[t]][f]

Gains(h, phase) == phase \in hs'[h].em /\ phase \notin hs[h].em

C11_Step ==
  \A h \in Handlers :
    LET t == hs[h].tab
    IN  /\ Gains(h, "cancelled_item")
          => /\ mem.cancel[t]
             /\ hs[h].pc \in {"chain", "pausewait", "analyze"}
             /\ "error_item" \notin hs'[h].em
             /\ CounterOf(mem', t, "done") = CounterOf(mem, t, "done") + 1
             /\ CounterOf(mem', t, "ok") = CounterOf(mem, t, "ok")
             /\ CounterOf(mem', t, "error") = CounterOf(mem, t, "error")
        /\ (hs[h].pc \in {"chain", "pausewait"} /\ hs[h].settled = "no" /\ hs'[h].settled = "rej")
          => Gains(h, "cancelled_item")
        /\ Gains(h, "error_item") => "cancelled_item" \notin hs'[h].em
        /\ Gains(h, "cancelled") => "cancelled_item" \in hs[h].em
        /\ (hs[h].pc = "cisend" /\ hs'[h].pc # "cisend")
          => (Gains(h, "cancelled") <=> mem.heap[hs[h].st].done >= mem.heap[hs[h].st].queued)

\* C11 (cancellation is not a failure): a job that aborts at a cancel
\* checkpoint emits cancelled_item and never error_item, the step increments
\* done by one and leaves ok and error alone, and the handler goes on to emit
\* cancelled exactly when its stats read done >= queued.
C11_CancelNotFailure == [][C11_Step]_vars

\* a cancelled job has drained the queue: cancelled_item and cancelled were
\* emitted and the tab's stats count it as done, with no ok and no error
C11_Witness ==
  \E h \in Handlers :
    /\ {"cancelled_item", "cancelled"} \subseteq hs[h].em
    /\ hs[h].tab \in Tabs
    /\ CounterOf(mem, hs[h].tab, "done") >= 1
    /\ CounterOf(mem, hs[h].tab, "ok") = 0
    /\ CounterOf(mem, hs[h].tab, "error") = 0

\* ---- C12
\* Two tabs: well-formed admissions of either tab and one message without a
\* tab (which ends in the catch block); analysis and applier succeed; pause,
\* resume, cancel, tab close, clock and reset timers.
InitIso == InitWith(IsoMsgs, IsoTabs, 1, IsoTicks, FALSE)

NextIso ==
  \/ \E t \in Tabs : Receive(t, 1, TRUE, TRUE)
  \/ Receive(NoTab, NoAtt, FALSE, FALSE)
  \/ CfgRead(DefaultCfg)
  \/ \E h \in Handlers : QueuedSent(h)
  \/ \E h \in Handlers : JobStart(h)
  \/ \E h \in Handlers : PauseWake(h)
  \/ \E h \in Handlers : StartLogged(h)
  \/ \E h \in Handlers : ProcessingSent(h)
  \/ \E h \in Handlers : AnalyzeDone(h, TRUE)
  \/ \E h \in Handlers : ApplySettled(h, TRUE)
  \/ \E h \in Handlers : DoneItemSent(h)
  \/ \E h \in Handlers : DoneAllSent(h)
  \/ \E h \in Handlers : EndLogged(h)
  \/ \E h \in Handlers : CancelItemSent(h)
  \/ \E h \in Handlers : CancelledSent(h)
  \/ \E h \in Handlers : ErrorItemSent(h)
  \/ \E h \in Handlers : ErrorAllSent(h)
  \/ \E tm \in mem.timers : TimerFire(tm)
  \/ Tick(TtlMs + 1)
  \/ \E t \in Tabs : Cancel(t)
  \/ \E t \in Tabs : Pause(t)
  \/ \E t \in Tabs : Resume(t)
  \/ \E t \in Tabs : TabRemoved(t)

SpecIso == InitIso /\ [][NextIso]_vars

\* what the per-tab maps hold for key u, the stats object read through
TabState(m, u) ==
  [ queue |-> m.queue[u], seenHas |-> m.seenHas[u], seen |-> m.seen[u],
    stats |-> IF m.stats[u] = 0 THEN << >> ELSE <<m.heap[m.stats[u]]>>,
    cancel |-> m.cancel[u], paused |-> m.paused[u],
    pendHas |-> m.pendHas[u], pend |-> m.pend[u] ]

\* the keys whose entries differ after the step
ChangedTabs == {u \in TabKeys : TabState(mem', u) # TabState(mem, u)}

\* the handler invocations that took a step (or received their message)
ActedHandlers == {h \in Handlers : hs'[h] # hs[h]}

C12_Step ==
  /\ ActedHandlers # {} => ChangedTabs \subseteq {hs'[h].tab : h \in ActedHandlers}
  /\ (ActedHandlers # {} /\ ~\E h \in ActedHandlers : hs[h].pc = "cfg")
       => Cardinality(ActedHandlers) = 1
  /\ ActedHandlers = {} => Cardinality(ChangedTabs) <= 1
  /\ closed' # closed => ChangedTabs \subseteq closed' \ closed
  /\ mem'.timers # mem.timers /\ ActedHandlers = {}
       => ChangedTabs \subseteq {tm.tab : tm \in mem.timers \ mem'.timers}

C13_Purged ==
  \A t \in closed :
    /\ mem.queue[t] = 0
    /\ ~mem.seenHas[t]
    /\ mem.stats[t] = 0
    /\ ~mem.cancel[t]
    /\ ~mem.paused[t]
    /\ ~mem.pendHas[t]

\* ---- C14
Counters == {"queued", "done", "ok", "error"}

C14_Step ==
  \A t \in Tabs :
    Cancel(t) =>
      LET drained == CounterOf(mem, t, "done") >= CounterOf(mem, t, "queued")
          sent    == cancelHandler(mem, t).ev
      IN  /\ mem'.cancel[t] = ~drained
          /\ ~mem'.paused[t]
          /\ \A f \in Counters : CounterOf(mem', t, f) = CounterOf(mem, t, f)
          /\ Len(sent) = 1
          /\ sent[1].phase = IF drained THEN "cancelled" ELSE "cancel_request"
          /\ \A f \in Counters : sent[1][f] = CounterOf(mem, t, f)
          /\ hs' = hs

\* C14 (Cancel): a Cancel on a drained queue (done >= queued) sends
\* 'cancelled' and leaves the cancel flag unset; otherwise it sends
\* 'cancel_request' and leaves the flag set; either way the paused flag is
\* cleared, no counter changes and no job takes a step.
C14_Cancel == [][C14_Step]_vars

\* a Cancel found a job pending while the tab was paused: the cancel flag is
\* set, the paused flag cleared, the job still counts as not done
C14_Witness ==
  \E t \in Tabs \ closed :
    /\ mem.cancel[t] /\ ~mem.paused[t]
    /\ CounterOf(mem, t, "done") < CounterOf(mem, t, "queued")
    /\ \E h \in Handlers : hs[h].tab = t /\ hs[h].pc = "pausewait"

\* ---- C15
\* one step of the handler invocation h after admission: each is the
\* completion of an awaited call (tabs.sendMessage, the chain's previous job,
\* addDebugLog, analyzeImage, the applier)
HandlerStep(h) ==
  \/ QueuedSent(h)
  \/ JobStart(h)
  \/ StartLogged(h)
  \/ ProcessingSent(h)
  \/ AnalyzeDone(h, TRUE)
  \/ ApplySettled(h, TRUE)
  \/ DoneItemSent(h)
  \/ DoneAllSent(h)
  \/ EndLogged(h)
  \/ CancelItemSent(h)
  \/ CancelledSent(h)

\* The cancel scenario under the assumption that every awaited call of an
\* admitted handler terminates; nothing obliges the page to send a further
\* candidate or the user to cancel. (A Cancel finds done < queued only after
\* an admission, that is with the configuration cache populated, and nothing
\* empties the cache in this scenario: no handler waits for the configuration
\* read after a cancel_request.)
SpecCancelLive ==
  /\ InitCancel
  /\ [][NextCancel]_vars
  /\ \A h \in 1..CancelMsgs : WF_vars(HandlerStep(h))

\* a Cancel has sent cancel_request and no candidate has been admitted since
CancelRequested ==
  \E k \in 1..Len(events) :
    events[k].phase = "cancel_request" /\ CountAfter(k, "queued") = 0

CancelCompleted ==
  /\ \E k \in 1..Len(events) :
       /\ events[k].phase = "cancel_request"
       /\ CountAfter(k, "cancelled") >= 1
  /\ ~mem.cancel[1]

AdmittedAfterCancel ==
  \E k \in 1..Len(events) :
    events[k].phase = "cancel_request" /\ CountAfter(k, "queued") >= 1

\* C15 (Cancel completes): once a Cancel has sent cancel_request (done <
\* queued), a 'cancelled' event is eventually sent for the tab and the cancel
\* flag is cleared, wherever the running job was when the Cancel arrived
\* (runs in which a further candidate is admitted after the Cancel are left
\* aside).
C15_CancelCompletes == CancelRequested ~> (CancelCompleted \/ AdmittedAfterCancel)

\* ---- C16
\* admitted jobs whose body has not begun: the 'queued' send or the chain
NotBegunPcs == {"qsend", "chain"}

\* a job of tab t awaits analyzeImage
Analysing(t) == \E g \in Handlers : hs[g].tab = t /\ hs[g].pc = "analyze"

C16_Step ==
  \A h \in Handlers :
    LET t == hs[h].tab
    IN  /\ (hs[h].pc = "analyze" /\ mem.cancel[t] /\ t \notin closed')
             => \/ hs'[h].pc = "analyze" /\ mem'.cancel[t]
                \/ hs'[h].pc = "cisend" /\ Gains(h, "cancelled_item")
                \/ hs'[h].pc = "eisend"
        /\ (hs[h].pc \in NotBegunPcs /\ Analysing(t) /\ mem.cancel[t] /\ t \notin closed')
             => \/ hs'[h].pc \in NotBegunPcs /\ mem'.cancel[t]
                \/ hs'[h].pc = "cisend" /\ Gains(h, "cancelled_item")

\* C16 (cooperative cancellation): once the cancel flag of an open tab is set
\* while a job's analysis call is in flight, the job stays cancelled until the
\* call returns and then ends as cancelled_item without the applier being
\* called (a call that fails ends the job as error_item), and an admitted job
\* waiting behind it stays cancelled until its turn and then ends as
\* cancelled_item without sending 'processing' or calling the analysis.
C16_Cooperative == [][C16_Step]_vars

\* ---- C17
\* The fuse scenario with a Cancel that arrives at the start of the batch,
\* while at most one candidate has been decided.
NextFuseCancel ==
  \/ \E h \in Handlers : hs[h].pc = "idle" /\ h = NextHandler /\ Receive(1, h, TRUE, TRUE)
  \/ CfgRead(FuseCfg)
  \/ \E h \in Handlers : QueuedSent(h)
  \/ \E h \in Handlers : JobStart(h)
  \/ \E h \in Handlers : StartLogged(h)
  \/ \E h \in Handlers : ProcessingSent(h)
  \/ \E h \in Handlers : AnalyzeDone(h, TRUE)
  \/ \E h \in Handlers : ApplySettled(h, TRUE)
  \/ \E h \in Handlers : DoneItemSent(h)
  \/ \E h \in Handlers : DoneAllSent(h)
  \/ \E h \in Handlers : EndLogged(h)
  \/ \E h \in Handlers : CancelItemSent(h)
  \/ \E h \in Handlers : CancelledSent(h)
  \/ Cardinality(Decided) <= 1 /\ Cancel(1)

SpecFuseCancel == InitFuse /\ [][NextFuseCancel]_vars

C17_Step ==
  \A h \in Handlers :
    LET t == hs'[h].tab
    IN  /\ Gains(h, "safety_stop")
             => /\ CounterOf(mem', t, "queued") - CounterOf(mem, t, "queued")
                     = Cardinality({g \in Handlers : Gains(g, "queued")})
                /\ "queued" \notin hs'[h].em
                /\ mem'.cancel[t]
        /\ (Emitted("safety_stop") # {} /\ hs[h].pc \in NotBegunPcs /\ mem.cancel[t])
             => \/ hs'[h].pc \in NotBegunPcs /\ mem'.cancel[t]
                \/ /\ hs'[h].pc = "cisend"
                   /\ Gains(h, "cancelled_item")
                   /\ "processing" \notin hs'[h].em

\* C17 (fuse trip aborts the remainder): the admission that trips the fuse
\* is not counted in queued (queued grows by the number of candidates admitted
\* in the step, the refused one not among them) and leaves the cancel flag
\* set; and once the fuse has tripped, while the cancel flag is set, an
\* admitted job that has not begun its body stays cancelled until its turn,
\* when it ends as cancelled_item without having sent 'processing'.
C17_FuseAborts == [][C17_Step]_vars

\* ---- C18
\* C18 as stated (the fuse caps the jobs not yet finished): an admission is
\* refused by the fuse only when queued - done of the tab is at least fuseMax.
C18_FuseCapsOutstanding ==
  [][\A h \in Handlers :
       Gains(h, "safety_stop")
         => CounterOf(mem', hs'[h].tab, "queued") - CounterOf(mem', hs'[h].tab, "done")
              >= FuseMin]_vars

C18_Step ==
  \A h \in Handlers :
    LET queued == CounterOf(mem', hs'[h].tab, "queued")
    IN  /\ Gains(h, "safety_stop") => queued >= FuseMin
        /\ Gains(h, "queued") => queued <= FuseMin

\* C18 (amended): the fuse caps the jobs admitted since the tab's stats entry
\* was created, finished ones included: a candidate is refused by the fuse
\* only when queued is at least fuseMax, and is admitted only when queued was
\* below fuseMax.
C18_FuseCapsAdmitted == [][C18_Step]_vars

\* the fuse has refused a candidate of a tab whose fuseMax admitted jobs have
\* all finished successfully
C18_Witness ==
  /\ Emitted("safety_stop") # {}
  /\ CounterOf(mem, 1, "ok") = FuseMin
  /\ CounterOf(mem, 1, "done") = CounterOf(mem, 1, "queued")

\* ---- C19
\* the callback of a reset timer runs in this step
TimerFired == mem.timers \ mem'.timers # {}

C19_Step ==
  \A t \in Tabs :
    (TimerFired /\ mem.stats[t] # 0 /\ mem'.stats[t] = 0)
      => CounterOf(mem, t, "done") >= CounterOf(mem, t, "queued")

\* C19 (stats are cleared only when settled): the callback of the reset timer
\* removes the stats entry of a tab only when done >= queued, never while an
\* admitted job is pending or running.
C19_ClearedOnlySettled == [][C19_Step]_vars

\* ---- C20
\* C20 (stats are eventually cleared): when every handler has returned, the
\* jobs of a tab have been admitted and have all finished (done >= queued,
\* queued >= 1), no message for the tab has arrived for the longest grace
\* period (every message that reaches the stats refreshes lastAt) and no
\* reset timer is pending, the tab has no stats entry: an entry that is still
\* there will never be removed, since only a reset timer removes it.
C20_EventuallyCleared ==
  \A t \in Tabs \ closed :
    ( /\ Quiet
      /\ mem.timers = {}
      /\ mem.stats[t] # 0
      /\ CounterOf(mem, t, "queued") >= 1
      /\ CounterOf(mem, t, "done") >= CounterOf(mem, t, "queued") )
    => now - CounterOf(mem, t, "lastAt") < DelayErrorAll

\* ---- C21
\* MACA_BATCH_PROCESS_SELECTED, lines 3503-3617. A run is a handler invocation
\* whose att field is the index i + 1 of the current item.
BatchItems == 2       \* attachments selected when the batch button is pressed

\* the positions of a batch run (MACA_BATCH_PROCESS_SELECTED) before its return
BatchPcs == {"bsetup", "bitem", "banalyze", "bapply", "bnext", "bend"}

\* the closing overlay messages of a batch run
BatchTerminal == {"overlay_cancelled", "overlay_done"}

\* STATE.batchRunning of the tab's overlay (README.md 1044-1049, 1394-1407,
\* 1425): set by the click on the batch button, cleared by the overlay
\* message 'done' or 'cancelled' and by the failed response
batchRunning(t) ==
  \E g \in Handlers : hs[g].tab = t /\ hs[g].pc \in BatchPcs /\ hs[g].em \cap BatchTerminal = {}

\* the click on the batch button (README.md 1043-1061, ignored while
\* STATE.batchRunning) and lines 3506-3512 with the configuration already
\* cached: the handler registers its cancel flag and AbortController and
\* awaits addDebugLog and the MACA_GET_SELECTED_ATTACHMENTS round trip.
BatchReceive(t) ==
  /\ \E h \in Handlers : hs[h].pc = "idle"
  /\ t \in Tabs \ closed
  /\ cfgCache # << >>
  /\ ~batchRunning(t)
  /\ LET h == NextHandler
     IN  Commit([mem EXCEPT !.batchCancel[t] = "false", !.batchAbort[t] = h],
                [hs EXCEPT ![h] = [@ EXCEPT !.pc = "bsetup", !.tab = t, !.rcv = Len(events)]],
                << >>)
  /\ UNCHANGED <<now, ticks, cfgCache, closed, pauseReq, logging, obs>>

\* the loop head, lines 3524-3549 and 3604, for item i (the item items[i - 1]
\* of the source): the end of the loop with the overlay message 'done', or the
\* cancel test with the overlay message 'cancelled' (current: i - 1), or the
\* overlay message 'item' of the iteration that begins
BatchLoopHead(m, r, i) ==
  IF i > BatchItems
    THEN [r EXCEPT !.pc = "bend", !.resp = "ok", !.em = @ \cup {"overlay_done"}, !.cur = BatchItems]
  ELSE IF m.batchCancel[r.tab] = "true"
    THEN [r EXCEPT !.pc = "bend", !.resp = "cancelled", !.em = @ \cup {"overlay_cancelled"},
                   !.cur = i - 1]
  ELSE [r EXCEPT !.pc = "bitem", !.att = i]

\* the selection arrives, lines 3516-3520: n items
BatchSelected(h, n) ==
  /\ hs[h].pc = "bsetup"
  /\ LET r == hs[h]
     IN  IF n = 0
           THEN Commit(mem, [hs EXCEPT ![h] = [r EXCEPT !.pc = "bend", !.resp = "error"]], << >>)
           ELSE Commit(mem, [hs EXCEPT ![h] = BatchLoopHead(mem, r, 1)], << >>)
  /\ UNCHANGED <<now, ticks, cfgCache, closed, pauseReq, logging, obs>>

\* the overlay message 'item' settles, lines 2298-2307 and 3542-3560:
\* sendOverlay throws to the outer catch (3608) when the tab has gone;
\* otherwise analyzeImage is called with the run's abort signal
BatchItemSent(h) ==
  /\ hs[h].pc = "bitem"
  /\ LET r == hs[h]
     IN  IF r.tab \in closed
           THEN Commit(mem, [hs EXCEPT ![h] = [r EXCEPT !.pc = "bend", !.resp = "error"]], << >>)
           ELSE Commit(mem, [hs EXCEPT ![h] = [r EXCEPT !.pc = "banalyze",
                                                        !.sig = h \in mem.aborted]], << >>)
  /\ UNCHANGED <<now, ticks, cfgCache, closed, pauseReq, logging, obs>>

\* the item's catch block, lines 3579-3600
BatchItemCatch(m, r, abortError) ==
  IF m.batchCancel[r.tab] = "true" \/ abortError
    THEN [r EXCEPT !.pc = "bend", !.resp = "cancelled", !.em = @ \cup {"overlay_cancelled"},
                   !.cur = r.att - 1]
    ELSE [r EXCEPT !.pc = "bnext", !.iters = @ + 1]

\* analyzeImage settles, lines 3548-3572: out is "ok", "error" or "abort"
\* (the AbortError of an aborted controller); every request of analyzeImage
\* carries the signal (2449, 2464-2467), so a call with an aborted signal
\* cannot succeed; on success the first applier attempt is sent
BatchAnalyzeDone(h, out) ==
  /\ hs[h].pc = "banalyze"
  /\ out = "abort" => h \in mem.aborted
  /\ out = "ok" => ~hs[h].sig
  /\ LET r == hs[h]
     IN  IF out = "ok"
           THEN Commit(mem, [hs EXCEPT ![h] = [r EXCEPT !.pc = "bapply"]], << >>)
           ELSE Commit(mem, [hs EXCEPT ![h] = BatchItemCatch(mem, r, out = "abort")], << >>)
  /\ UNCHANGED <<now, ticks, cfgCache, closed, pauseReq, logging, obs>>

\* autoApplyAttachmentWithRetry settles, lines 3572-3577
BatchApplySettled(h, applied) ==
  /\ hs[h].pc = "bapply"
  /\ LET r == hs[h]
     IN  IF applied
           THEN Commit(mem, [hs EXCEPT ![h] = [r EXCEPT !.pc = "bnext", !.iters = @ + 1]], << >>)
           ELSE Commit(mem, [hs EXCEPT ![h] = BatchItemCatch(mem, r, FALSE)], << >>)
  /\ UNCHANGED <<now, ticks, cfgCache, closed, pauseReq, logging, obs>>

\* the item's last addDebugLog settles: the next iteration begins
BatchNext(h) ==
  /\ hs[h].pc = "bnext"
  /\ Commit(mem, [hs EXCEPT ![h] = BatchLoopHead(mem, hs[h], hs[h].att + 1)], << >>)
  /\ UNCHANGED <<now, ticks, cfgCache, closed, pauseReq, logging, obs>>

\* the closing overlay message and addDebugLog settle: sendResponse and the
\* finally block, lines 3606-3615
BatchEnd(h) ==
  /\ hs[h].pc = "bend"
  /\ LET t == hs[h].tab
     IN  Commit([mem EXCEPT !.batchCancel[t] = "none", !.batchAbort[t] = 0],
                [hs EXCEPT ![h] = [@ EXCEPT !.pc = "done"]], << >>)
  /\ UNCHANGED <<now, ticks, cfgCache, closed, pauseReq, logging, obs>>

\* the click on the cancel button (README.md 1070-1079, ignored unless
\* STATE.batchRunning) and MACA_BATCH_CANCEL, lines 3620-3627
BatchCancel(t) ==
  /\ t \in Tabs \ closed
  /\ batchRunning(t)
  /\ Commit([mem EXCEPT !.batchCancel[t] = "true",
                        !.aborted = IF mem.batchAbort[t] = 0 THEN @ ELSE @ \cup {mem.batchAbort[t]}],
            hs, << >>)
  /\ mem' # mem
  /\ UNCHANGED <<now, ticks, cfgCache, closed, pauseReq, logging, obs>>

\* The batch scenario: on one tab an auto-upload candidate is processed and
\* the user runs the batch button (after the configuration has been cached)
\* and may cancel the batch.
BatchMsgs == 3        \* handler invocations in one behaviour of SpecBatch

InitBatch == InitWith(BatchMsgs, 1, BatchMsgs, 0, FALSE)

NextBatch ==
  \/ \E h \in Handlers : hs[h].pc = "idle" /\ h = NextHandler /\ Receive(1, h, TRUE, TRUE)
  \/ CfgRead(DefaultCfg)
  \/ \E h \in Handlers : QueuedSent(h)
  \/ \E h \in Handlers : JobStart(h)
  \/ \E h \in Handlers : StartLogged(h)
  \/ \E h \in Handlers : ProcessingSent(h)
  \/ \E h \in Handlers : AnalyzeDone(h, TRUE)
  \/ \E h \in Handlers : ApplySettled(h, TRUE)
  \/ \E h \in Handlers : DoneItemSent(h)
  \/ \E h \in Handlers : DoneAllSent(h)
  \/ \E h \in Handlers : EndLogged(h)
  \/ BatchReceive(1)
  \/ \E h \in Handlers, n \in {0, BatchItems} : BatchSelected(h, n)
  \/ \E h \in Handlers : BatchItemSent(h)
  \/ \E h \in Handlers, out \in {"ok", "error", "abort"} : BatchAnalyzeDone(h, out)
  \/ \E h \in Handlers, applied \in BOOLEAN : BatchApplySettled(h, applied)
  \/ \E h \in Handlers : BatchNext(h)
  \/ \E h \in Handlers : BatchEnd(h)
  \/ BatchCancel(1)

SpecBatch == InitBatch /\ [][NextBatch]_vars

\* handlers of tab t inside autoApplyAttachmentWithRetry
Applying(t) == {h \in Handlers : hs[h].tab = t /\ hs[h].pc \in {"apply", "bapply"}}

\* C21 (single writer of the DOM per tab): at most one handler of a tab, an
\* auto-upload job or a batch run, is inside the Field Applier at any time.
C21_SingleWriter == \A t \in Tabs : Cardinality(Applying(t)) <= 1

\* ---- C22
\* The TTL scenario: the same attachment id of tab 1 is announced TtlMsgs
\* times; a job succeeds or fails; the clock advances by exactly the TTL or by
\* one millisecond more; the reset timers fire.
TtlMsgs == 3          \* messages in one behaviour of SpecTtl
TtlTicks == 2         \* clock advances in one behaviour of SpecTtl

InitTtl == InitWith(TtlMsgs, 1, 1, TtlTicks, FALSE)

NextTtl ==
  \/ Receive(1, 1, TRUE, TRUE)
  \/ CfgRead(DefaultCfg)
  \/ \E h \in Handlers : QueuedSent(h)
  \/ \E h \in Handlers : JobStart(h)
  \/ \E h \in Handlers : StartLogged(h)
  \/ \E h \in Handlers : ProcessingSent(h)
  \/ \E h \in Handlers : AnalyzeDone(h, TRUE)
  \/ \E h \in Handlers : AnalyzeDone(h, FALSE)
  \/ \E h \in Handlers : ApplySettled(h, TRUE)
  \/ \E h \in Handlers : DoneItemSent(h)
  \/ \E h \in Handlers : DoneAllSent(h)
  \/ \E h \in Handlers : EndLogged(h)
  \/ \E h \in Handlers : ErrorItemSent(h)
  \/ \E h \in Handlers : ErrorAllSent(h)
  \/ \E tm \in mem.timers : TimerFire(tm)
  \/ Tick(TtlMs)
  \/ Tick(TtlMs + 1)

SpecTtl == InitTtl /\ [][NextTtl]_vars

\* the admission of handler h is decided in this step
Decides(h) == hs[h].pc \in {"idle", "cfg"} /\ hs'[h].pc \notin {"idle", "cfg"}

\* handler g processed attachment a of tab t successfully
Succeeded(g, t, a) == hs[g].tab = t /\ hs[g].att = a /\ "done_item" \in hs[g].em

C22_Step ==
  \A h \in Handlers :
    Decides(h) =>
      LET t == hs'[h].tab
          a == hs'[h].att
      IN  /\ (\E g \in Handlers \ {h} : Succeeded(g, t, a) /\ now - hs[g].at <= TtlMs)
               => hs'[h].resp = "duplicate"
          /\ (mem.seenHas[t] /\ mem.seen[t][a] > 0 /\ now - mem.seen[t][a] > TtlMs)
               => Gains(h, "queued")
          /\ \A b \in AttIds : mem'.seen[t][b] >= 0 => now - mem'.seen[t][b] <= TtlMs

\* C22 (dedup TTL): an admission for an id whose job succeeded after being
\* marked at most TtlMs ago is refused as duplicate; an admission that finds
\* the id's registry entry older than TtlMs is accepted; and after an
\* admission check the registry of the tab holds no entry older than TtlMs.
C22_DedupTtl == [][C22_Step]_vars

\* ---- C23
\* handler h alone is decided in this step, its id is in the registry of its
\* tab and not older than the TTL, and the cancel check has let it pass
DuplicateCase(h) ==
  /\ Decides(h)
  /\ \A g \in Handlers \ {h} : hs'[g] = hs[g]
  /\ LET t == hs'[h].tab
         a == hs'[h].att
     IN  /\ t \in Tabs /\ a \in AttIds
         /\ mem.seenHas[t] /\ mem.seen[t][a] > 0 /\ now - mem.seen[t][a] <= TtlMs
         /\ ~(mem.cancel[t] /\ CounterOf(mem, t, "done") < CounterOf(mem, t, "queued"))

\* what the duplicate refusal leaves alone
DuplicateFrame(h) ==
  LET t == hs'[h].tab
  IN  /\ hs'[h].resp = "duplicate" /\ hs'[h].pc = "done"
      /\ hs'[h].em = {}
      /\ events' = events
      /\ \A f \in Counters : CounterOf(mem', t, f) = CounterOf(mem, t, f)
      /\ mem'.pendHas[t] = mem.pendHas[t] /\ mem'.pend[t] = mem.pend[t]
      /\ mem'.paused[t] = mem.paused[t]
      /\ mem'.queue[t] = mem.queue[t]

\* C23 as stated (duplicate admission changes nothing): the refusal leaves
\* the counters, pendingIds, the paused flag, the chain and also the cancel
\* flag unchanged, sends no progress message and answers 'duplicate'.
C23_DuplicateFrame ==
  [][\A h \in Handlers :
       DuplicateCase(h) => DuplicateFrame(h) /\ mem'.cancel[hs'[h].tab] = mem.cancel[hs'[h].tab]]_vars

\* C23 (amended): the refusal leaves the counters, pendingIds, the paused
\* flag and the chain unchanged, sends no progress message and answers
\* 'duplicate'; the cancel flag is unset afterwards (a flag that was set with
\* done >= queued is cleared by the cancel check that precedes the dedup
\* check) and the tab has a stats entry.
C23_DuplicateFrameAmended ==
  [][\A h \in Handlers :
       DuplicateCase(h)
         => /\ DuplicateFrame(h)
            /\ ~mem'.cancel[hs'[h].tab]
            /\ mem'.stats[hs'[h].tab] # 0]_vars

\* an id whose job succeeded has been refused as duplicate
C23_Witness ==
  \E h, g \in Handlers :
    /\ hs[h].resp = "duplicate"
    /\ Succeeded(g, hs[h].tab, hs[h].att)

\* ---- C24
\* autoApplyAttachmentWithRetry, lines 2204-2218: what follows attempt number
\* i (from 0) whose MACA_APPLY_TO_ATTACHMENT exchange ended as res: "set" (the
\* response reports alt, title or leyenda applied), "empty" (a response with
\* none of them) or "throw" (sendMessage rejected). Here a throw ends the loop.
applyAttemptThrowEnds(i, res) ==
  IF res = "set" THEN "ok"
  ELSE IF res = "throw" THEN "fail"
  ELSE IF i < ApplyAttempts - 1 THEN "retry"
  ELSE "fail"

\* lines 2206-2217
applyAttempt(i, res) ==
  IF res = "set" THEN "ok"
  ELSE IF i < ApplyAttempts - 1 THEN "retry"
  ELSE "fail"

\* One applier attempt of handler h settles with res; after a failed attempt
\* that is not the last, the 220 ms sleep and the next send follow.
ApplyAttempt(h, res) ==
  /\ hs[h].pc = "apply"
  /\ LET r   == [hs[h] EXCEPT !.tries = @ + 1, !.lastRes = res]
         nxt == applyAttempt(hs[h].tries, res)
     IN  IF nxt = "ok" THEN CommitStep(h, MarkDone(mem, r))
         ELSE IF nxt = "fail" THEN CommitStep(h, ThrowError(mem, hs, r))
         ELSE CommitStep(h, [m |-> mem, r |-> r, ev |-> << >>])
  /\ UNCHANGED <<now, ticks, cfgCache, closed, pauseReq, logging, obs>>

\* The retry scenario: candidates of tab 1 whose analysis succeeds and whose
\* applier attempts end in any of the three ways.
RetryMsgs == 2        \* messages in one behaviour of SpecRetry

InitRetry == InitWith(RetryMsgs, 1, RetryMsgs, 0, FALSE)

NextRetry ==
  \/ \E h \in Handlers : hs[h].pc = "idle" /\ h = NextHandler /\ Receive(1, h, TRUE, TRUE)
  \/ CfgRead(DefaultCfg)
  \/ \E h \in Handlers : QueuedSent(h)
  \/ \E h \in Handlers : JobStart(h)
  \/ \E h \in Handlers : StartLogged(h)
  \/ \E h \in Handlers : ProcessingSent(h)
  \/ \E h \in Handlers : AnalyzeDone(h, TRUE)
  \/ \E h \in Handlers, res \in {"set", "empty", "throw"} : ApplyAttempt(h, res)
  \/ \E h \in Handlers : DoneItemSent(h)
  \/ \E h \in Handlers : DoneAllSent(h)
  \/ \E h \in Handlers : EndLogged(h)
  \/ \E h \in Handlers : ErrorItemSent(h)
  \/ \E h \in Handlers : ErrorAllSent(h)

SpecRetry == InitRetry /\ [][NextRetry]_vars

C24_Step ==
  \A h \in Handlers :
    hs[h].pc = "apply" =>
      LET t == hs[h].tab
      IN  /\ hs[h].tries < ApplyAttempts
          /\ hs[h].lastRes # "set"
          /\ hs'[h].tries = hs[h].tries + 1 =>
               \/ /\ hs'[h].lastRes = "set"
                  /\ Gains(h, "done_item")
                  /\ CounterOf(mem', t, "ok") = CounterOf(mem, t, "ok") + 1
               \/ /\ hs'[h].lastRes \in {"empty", "throw"}
                  /\ hs'[h].tries < ApplyAttempts
                  /\ hs'[h].pc = "apply" /\ hs'[h].em = hs[h].em
               \/ /\ hs'[h].lastRes \in {"empty", "throw"}
                  /\ hs'[h].tries = ApplyAttempts
                  /\ Gains(h, "error_item")
                  /\ CounterOf(mem', t, "error") = CounterOf(mem, t, "error") + 1

\* C24 (Field Applier retry): a job makes at most ApplyAttempts attempts; the
\* first attempt that reports a field set ends the loop and the job counts as
\* ok (done_item); an attempt with no field set or a rejected send is followed
\* by another attempt unless it was attempt number ApplyAttempts, after which
\* the job ends as error_item.
C24_Retry == [][C24_Step]_vars

\* one job succeeded at its last permitted attempt after a rejected send, and
\* another failed after all attempts
C24_Witness ==
  \E h, g \in Handlers :
    /\ "done_item" \in hs[h].em /\ hs[h].tries = ApplyAttempts
    /\ "error_item" \in hs[g].em /\ hs[g].tries = ApplyAttempts /\ hs[g].lastRes = "throw"

\* ---- C25
\* the rejection of chrome.tabs.sendMessage reaches the caller
sendAutoUploadProgressRejects(delivered) == IF delivered THEN "resolved" ELSE "rejected"

\* How the promise of sendAutoUploadProgress settles: the send is awaited
\* inside try { } catch (_) {}, so a rejected send is swallowed.
sendAutoUploadProgressSettles(delivered) == "resolved"

\* positions at which a handler awaits sendAutoUploadProgress, inside the try
\* block of the handler and inside its catch blocks
TrySendPcs == {"qsend", "psend", "dsend", "dasend"}
CatchSendPcs == {"cisend", "ctsend", "eisend", "easend"}

\* chrome.tabs.sendMessage rejects (the tab has no listener) while handler h
\* awaits a progress send.  A resolved sendAutoUploadProgress leaves the
\* handler at its await, to go on as after a delivered message; a rejection
\* would be thrown at the await: into the catch block when the await is inside
\* the try block, out of the handler when it is inside a catch block.
DeliveryFails(h) ==
  /\ hs[h].pc \in TrySendPcs \cup CatchSendPcs
  /\ hs[h].pc \notin hs[h].lost
  /\ LET r == [hs[h] EXCEPT !.lost = @ \cup {hs[h].pc}]
     IN  IF sendAutoUploadProgressSettles(FALSE) = "resolved"
           THEN CommitStep(h, [m |-> mem, r |-> r, ev |-> << >>])
         ELSE IF hs[h].pc \in TrySendPcs
           THEN CommitStep(h, ThrowError(mem, hs, r))
         ELSE CommitStep(h, [m |-> mem, r |-> Finish(r, "unhandled"), ev |-> << >>])
  /\ UNCHANGED <<now, ticks, cfgCache, closed, pauseReq, logging, obs>>

\* The delivery scenario: the failure scenario (id FailingAtt fails, every
\* other id succeeds) in a tab where any progress send may fail.
DeliverMsgs == 2      \* messages in one behaviour of SpecDeliver

InitDeliver == InitWith(DeliverMsgs, 1, DeliverMsgs, 0, TRUE)

NextDeliver ==
  \/ \E h \in Handlers : hs[h].pc = "idle" /\ h = NextHandler /\ Receive(1, h, TRUE, TRUE)
  \/ CfgRead(DefaultCfg)
  \/ \E h \in Handlers : QueuedSent(h)
  \/ \E h \in Handlers : JobStart(h)
  \/ \E h \in Handlers : StartLogged(h)
  \/ \E h \in Handlers : ProcessingSent(h)
  \/ \E h \in Handlers, f \in BOOLEAN : (f \/ hs[h].att = FailingAtt) /\ AnalyzeDone(h, f)
  \/ \E h \in Handlers : ApplySettled(h, hs[h].att # FailingAtt)
  \/ \E h \in Handlers : DoneItemSent(h)
  \/ \E h \in Handlers : DoneAllSent(h)
  \/ \E h \in Handlers : EndLogged(h)
  \/ \E h \in Handlers : ErrorItemSent(h)
  \/ \E h \in Handlers : ErrorAllSent(h)
  \/ \E h \in Handlers : DeliveryFails(h)

SpecDeliver == InitDeliver /\ [][NextDeliver]_vars

C25_Step ==
  /\ \A h \in Handlers :
       /\ hs'[h].lost # hs[h].lost
            => /\ mem' = mem /\ events' = events
               /\ hs' = [hs EXCEPT ![h].lost = hs'[h].lost]
       /\ hs'[h].pc = "done"
            => IF hs'[h].att = FailingAtt
                 THEN /\ hs'[h].resp = "error"
                      /\ "error_item" \in hs'[h].em /\ "done_item" \notin hs'[h].em
                 ELSE /\ hs'[h].resp = "ok"
                      /\ "done_item" \in hs'[h].em /\ "error_item" \notin hs'[h].em
  /\ (\A h \in Handlers : hs'[h].pc = "done")
       => /\ CounterOf(mem', 1, "queued") = DeliverMsgs
          /\ CounterOf(mem', 1, "done") = DeliverMsgs
          /\ CounterOf(mem', 1, "ok") = DeliverMsgs - 1
          /\ CounterOf(mem', 1, "error") = 1
          /\ ~mem'.cancel[1] /\ ~mem'.paused[1]

\* C25 (best-effort progress delivery): a progress send that fails changes no
\* counter, flag, queue or recorded message and leaves the handler where it
\* was; every invocation returns what it returns when all sends are
\* delivered (ok and done_item, or error and error_item for the failing id),
\* and the final counters are those of the run without failed sends.
C25_BestEffort == [][C25_Step]_vars

\* every handler has returned; the sends of a successful job and those of the
\* failing job, in the try block and in the catch block, have failed
C25_Witness ==
  /\ AllReturned
  /\ \E h, g \in Handlers :
       /\ hs[h].att # FailingAtt /\ {"qsend", "psend", "dsend"} \subseteq hs[h].lost
       /\ hs[g].att = FailingAtt /\ {"qsend", "psend", "eisend", "easend"} \subseteq hs[g].lost

\* ---- C26
\* what Pause and Resume are said to leave alone in tab t: the counters, the
\* pendingIds, the cancel flag, the seen registry, and also the chain and
\* every handler invocation
CommandFrame(t) ==
  /\ \A f \in Counters : CounterOf(mem', t, f) = CounterOf(mem, t, f)
  /\ mem'.pend[t] = mem.pend[t]
  /\ mem'.cancel[t] = mem.cancel[t]
  /\ mem'.seenHas[t] = mem.seenHas[t] /\ mem'.seen[t] = mem.seen[t]
  /\ mem'.queue[t] = mem.queue[t]
  /\ hs' = hs
  /\ \A u \in TabKeys \ {t} : TabState(mem', u) = TabState(mem, u)

\* the step appends exactly one progress message, of this phase, for tab t and
\* no attachment, showing the paused flag as it is after the step
CommandEmits(t, phase) ==
  /\ Len(events') = Len(events) + 1
  /\ LET e == events'[Len(events')]
     IN  e.phase = phase /\ e.tab = t /\ e.att = NoAtt /\ e.paused = mem'.paused[t]

\* The command scenario: candidates of tab 1 whose analysis and applier
\* succeed, and up to PauseCmds pause, resume and cancel commands at any
\* moment, the first of them possibly before any candidate.
PauseMsgs == 2        \* messages in one behaviour of SpecPause
PauseCmds == 3        \* pause/resume/cancel commands in one behaviour of SpecPause

InitPause == InitWith(PauseMsgs, 1, PauseMsgs, 0, TRUE)

NextPause ==
  \/ \E h \in Handlers : hs[h].pc = "idle" /\ h = NextHandler /\ Receive(1, h, TRUE, TRUE)
  \/ CfgRead(DefaultCfg)
  \/ \E h \in Handlers : QueuedSent(h)
  \/ \E h \in Handlers : JobStart(h)
  \/ \E h \in Handlers : PauseWake(h)
  \/ \E h \in Handlers : StartLogged(h)
  \/ \E h \in Handlers : ProcessingSent(h)
  \/ \E h \in Handlers : AnalyzeDone(h, TRUE)
  \/ \E h \in Handlers : ApplySettled(h, TRUE)
  \/ \E h \in Handlers : DoneItemSent(h)
  \/ \E h \in Handlers : DoneAllSent(h)
  \/ \E h \in Handlers : EndLogged(h)
  \/ \E h \in Handlers : CancelItemSent(h)
  \/ \E h \in Handlers : CancelledSent(h)
  \/ Cardinality(CommandEvents) < PauseCmds /\ Cancel(1)
  \/ Cardinality(CommandEvents) < PauseCmds /\ Pause(1)
  \/ Cardinality(CommandEvents) < PauseCmds /\ Resume(1)

SpecPause == InitPause /\ [][NextPause]_vars

C26_Step ==
  \A t \in Tabs :
    /\ Pause(t) => mem'.paused[t] /\ CommandEmits(t, "paused") /\ CommandFrame(t)
    /\ Resume(t) => ~mem'.paused[t] /\ CommandEmits(t, "resumed") /\ CommandFrame(t)

\* the stats entry of tab t is absent or present as before, with the same time
\* of last activity
StatsEntryKept(t) ==
  /\ (mem'.stats[t] = 0) = (mem.stats[t] = 0)
  /\ CounterOf(mem', t, "lastAt") = CounterOf(mem, t, "lastAt")

C26_StepOnly ==
  \A t \in Tabs : (Pause(t) \/ Resume(t)) => CommandFrame(t) /\ StatsEntryKept(t)

\* C26 (pause/resume frame) as stated: Pause and Resume change only the
\* paused flag, so besides the counters, the pendingIds, the cancel flag and
\* the seen registry also the stats entry itself is as before.
C26_PauseResumeOnly == [][C26_StepOnly]_vars

\* C26 (pause/resume frame), amended: Pause sets the tab's paused flag and
\* emits 'paused', Resume clears it and emits 'resumed', in the same step and
\* whatever jobs the tab has; the counters queued, done, ok and error, the
\* pendingIds, the cancel flag and the seen registry are as before (the stats
\* entry may be created and its time of last activity refreshed).
C26_PauseResumeFrame == [][C26_Step]_vars

\* 'paused' and then 'resumed' were emitted for a tab that never had a job,
\* and later 'paused' was emitted while a job of the tab was in its body
C26_Witness ==
  \E i, j, k \in 1..Len(events) :
    /\ i < j /\ j < k
    /\ events[i].phase = "paused" /\ events[i].queued = 0
    /\ events[j].phase = "resumed" /\ events[j].queued = 0
    /\ events[k].phase = "paused" /\ events[k].queued > events[k].done
    /\ mem.paused[1]
    /\ \E h \in Handlers : hs[h].pc \in BodyPcs

\* ------------------------------------------------- the content script (Observer)
\* AUTO_UPLOAD.uploadSignalWindowMs, AUTO_UPLOAD.minAgeMs and the literals of
\* countRecentUploadMarked, maybeAutoProcessUploadedAttachment and its callback
UploadSignalWindowMs == 45000
MinAgeMs == 1000
SessionSlackMs == 1000
BootSlackMs == 3000
SelectWindowMs == 3000
MaxRetries == 3

\* Date.now() when the content script is loaded
BootTime == 100000

\* an id without entry in AUTO_UPLOAD.byId
NoMeta ==
  [ has |-> FALSE, firstSeenAt |-> 0, sawUploading |-> FALSE, triggered |-> FALSE,
    retries |-> 0, initialScan |-> FALSE ]

\* an attachment tile that is not in the document
NoTile == [present |-> FALSE, uploading |-> FALSE, selected |-> FALSE, url |-> FALSE]

\* The content script after initAutoUploadObserver has run on a page whose
\* library shows the tiles E (not uploading, not selected): they are noted as
\* initial scan, and scanAll hands none of them off since none is old enough.
\* out[a] is the number of MACA_AUTO_PROCESS_ATTACHMENT messages for id a that
\* are not answered yet; sent counts all messages, sigs lists the times of the
\* calls of markUploadSignal (each time once), ticks the clock advances left,
\* via[a] the values of allowBatchUploadFlow and allowSelectFeature at the last
\* hand-off of id a.
ObsInit(nAtts, nTicks, selectOn, E) ==
  [ now |-> BootTime, ticks |-> nTicks, startedAt |-> BootTime,
    uploadSessionStartAt |-> 0, lastUploadingSignalAt |-> 0, lastUserSelectAt |-> 0,
    autoAnalyzeOnSelectMedia |-> selectOn,
    byId |-> [a \in 1..nAtts |->
               IF a \in E THEN [NoMeta EXCEPT !.has = TRUE, !.firstSeenAt = BootTime,
                                              !.initialScan = TRUE]
               ELSE NoMeta],
    dom |-> [a \in 1..nAtts |->
               IF a \in E THEN [NoTile EXCEPT !.present = TRUE, !.url = TRUE] ELSE NoTile],
    out |-> [a \in 1..nAtts |-> 0], sent |-> 0, sigs |-> << >>,
    via |-> [a \in 1..nAtts |-> [batch |-> FALSE, select |-> FALSE]] ]

ObsAtts == DOMAIN obs.byId

hasRecentUploadSignal(o) ==
  (o.now - o.lastUploadingSignalAt) <= UploadSignalWindowMs

\* the times of the calls of markUploadSignal, each time once
NoteSignal(sigs, t) ==
  IF sigs # << >> /\ sigs[Len(sigs)] = t THEN sigs ELSE Append(sigs, t)

\* the comparison is strict
markUploadSignalStrict(o) ==
  LET wasRecent == (o.now - o.lastUploadingSignalAt) < UploadSignalWindowMs
  IN  [o EXCEPT !.uploadSessionStartAt = IF wasRecent THEN @ ELSE o.now,
                !.lastUploadingSignalAt = o.now,
                !.sigs = NoteSignal(@, o.now)]

markUploadSignal(o) ==
  LET wasRecent == (o.now - o.lastUploadingSignalAt) <= UploadSignalWindowMs
  IN  [o EXCEPT !.uploadSessionStartAt = IF wasRecent THEN @ ELSE o.now,
                !.lastUploadingSignalAt = o.now,
                !.sigs = NoteSignal(@, o.now)]

\* noteAttachmentMeta for the tile of id a
noteAttachmentMeta(o, a, initial) ==
  LET o1 == IF ~o.byId[a].has
              THEN [o EXCEPT !.byId[a] = [NoMeta EXCEPT !.has = TRUE, !.firstSeenAt = o.now,
                                                        !.initialScan = initial]]
            ELSE IF initial /\ o.byId[a].initialScan # FALSE
              THEN [o EXCEPT !.byId[a].initialScan = TRUE]
            ELSE o
  IN  IF o.dom[a].uploading
        THEN markUploadSignal([o1 EXCEPT !.byId[a].sawUploading = TRUE])
      ELSE o1

inUploadSession(o) == hasRecentUploadSignal(o) /\ o.uploadSessionStartAt > 0

\* every noted attachment is counted
countRecentUploadMarkedAll(o) ==
  Cardinality({b \in DOMAIN o.byId : o.byId[b].has})

countRecentUploadMarked(o) ==
  Cardinality({ b \in DOMAIN o.byId :
    LET meta == o.byId[b]
    IN  /\ meta.has /\ meta.firstSeenAt # 0
        /\ (o.now - meta.firstSeenAt) <= UploadSignalWindowMs
        /\ \/ meta.sawUploading
           \/ /\ inUploadSession(o)
              /\ ~meta.initialScan
              /\ meta.firstSeenAt >= o.uploadSessionStartAt - SessionSlackMs })

\* the test is missing
alreadyTriggeredNever(meta) == FALSE

\* if (meta.triggered) return;
alreadyTriggered(meta) == meta.triggered

\* maybeAutoProcessUploadedAttachment for the tile of id a: the gates, then
\* meta.triggered = true and chrome.runtime.sendMessage.  url says whether the
\* tile yields a candidate with an image URL.
maybeAutoProcessUploadedAttachment(o, a) ==
  LET o1   == noteAttachmentMeta(o, a, FALSE)
      meta == o1.byId[a]
      selected == o1.dom[a].selected
      fromUpload == meta.sawUploading
      looksLikeNewAfterBoot == ~meta.initialScan /\ meta.firstSeenAt > (o1.startedAt + BootSlackMs)
      isMultiUpload == countRecentUploadMarked(o1) >= 2
      allowBatchUploadFlow ==
        isMultiUpload /\ inUploadSession(o1) /\ (fromUpload \/ looksLikeNewAfterBoot)
      userJustSelected == (o1.now - o1.lastUserSelectAt) < SelectWindowMs
      allowSelectFeature == o1.autoAnalyzeOnSelectMedia /\ selected /\ userJustSelected
  IN  IF alreadyTriggered(meta) THEN o1
      ELSE IF ~(allowBatchUploadFlow \/ allowSelectFeature) THEN o1
      ELSE IF (o1.now - meta.firstSeenAt) < MinAgeMs THEN o1
      ELSE IF ~o1.dom[a].url THEN o1
      ELSE [o1 EXCEPT !.byId[a].triggered = TRUE, !.out[a] = @ + 1, !.sent = @ + 1,
                      !.via[a] = [batch |-> allowBatchUploadFlow, select |-> allowSelectFeature]]

\* every skipped answer resets the flag
handOffCallbackResetsAll(o, a, res) ==
  LET o1 == [o EXCEPT !.out[a] = @ - 1]
  IN  IF res \in {"duplicate", "skipped"}
        THEN [o1 EXCEPT !.byId[a].retries = 0, !.byId[a].triggered = FALSE]
      ELSE IF res = "error"
        THEN [o1 EXCEPT !.byId[a].triggered = FALSE, !.byId[a].retries = @ + 1]
      ELSE [o1 EXCEPT !.byId[a].retries = 0]

\* The callback of chrome.runtime.sendMessage for id a.  res is "ok",
\* "duplicate" (skipped, reason duplicate), "skipped" (skipped for another
\* reason) or "error" (chrome.runtime.lastError, or a response without ok);
\* after an error the retry timer is armed while retries <= MaxRetries (its
\* callback is a call of maybeAutoProcessUploadedAttachment, see Scan).
handOffCallback(o, a, res) ==
  LET o1 == [o EXCEPT !.out[a] = @ - 1]
  IN  IF res = "duplicate" THEN [o1 EXCEPT !.byId[a].retries = 0]
      ELSE IF res = "skipped"
        THEN [o1 EXCEPT !.byId[a].retries = 0, !.byId[a].triggered = FALSE]
      ELSE IF res = "error"
        THEN [o1 EXCEPT !.byId[a].triggered = FALSE, !.byId[a].retries = @ + 1]
      ELSE [o1 EXCEPT !.byId[a].retries = 0]

\* Date.now() advances by d
ObsTick(d) ==
  /\ obs.ticks > 0
  /\ obs' = [obs EXCEPT !.now = @ + d, !.ticks = @ - 1]
  /\ UNCHANGED workerVars

\* a listener of installUploadSignalHooks fires (file input change, drop or
\* paste with files, click on an upload button)
UploadSignal ==
  /\ obs' = markUploadSignal(obs)
  /\ UNCHANGED workerVars

\* The tile of id a is added to the document, with or without an upload
\* class and a thumbnail, and the MutationObserver callback handles the
\* childList record.
NodeAdded(a, up, url) ==
  /\ ~obs.dom[a].present
  /\ LET o0 == [obs EXCEPT !.dom[a] = [present |-> TRUE, uploading |-> up,
                                       selected |-> FALSE, url |-> url]]
         o1 == IF up THEN markUploadSignal(o0) ELSE o0
         o2 == noteAttachmentMeta(o1, a, FALSE)
         o3 == IF up THEN [o2 EXCEPT !.byId[a].sawUploading = TRUE] ELSE o2
     IN  obs' = maybeAutoProcessUploadedAttachment(o3, a)
  /\ UNCHANGED workerVars

\* class, aria-checked or aria-selected of the tile of id a change (the upload
\* ends or starts, the thumbnail arrives, the tile is selected or deselected)
\* and the MutationObserver callback handles the attributes record.
AttrChanged(a, up, sel, url) ==
  /\ obs.dom[a].present
  /\ <<up, sel, url>> # <<obs.dom[a].uploading, obs.dom[a].selected, obs.dom[a].url>>
  /\ LET o0 == [obs EXCEPT !.dom[a].uploading = up, !.dom[a].selected = sel, !.dom[a].url = url]
         o1 == noteAttachmentMeta(o0, a, FALSE)
     IN  obs' = maybeAutoProcessUploadedAttachment(o1, a)
  /\ UNCHANGED workerVars

\* click or keyup inside the library: LAST_USER_SELECT_AT = Date.now()
UserSelect ==
  /\ obs.lastUserSelectAt # obs.now
  /\ obs' = [obs EXCEPT !.lastUserSelectAt = obs.now]
  /\ UNCHANGED workerVars

\* maybeAutoProcessUploadedAttachment is called for the tile of id a by
\* scanAll (poll tick), by scanSelected (50 ms after a click or keyup, for a
\* selected tile) or by the retry timer of the callback.
Scan(a) ==
  /\ obs.dom[a].present
  /\ obs' = maybeAutoProcessUploadedAttachment(obs, a)
  /\ obs' # obs
  /\ UNCHANGED workerVars

\* the response to a message for id a arrives
HandOffAnswered(a, res) ==
  /\ obs.out[a] > 0
  /\ obs' = handOffCallback(obs, a, res)
  /\ UNCHANGED workerVars

\* chrome.storage.onChanged for autoAnalyzeOnSelectMedia
SettingChanged(v) ==
  /\ obs.autoAnalyzeOnSelectMedia # v
  /\ obs' = [obs EXCEPT !.autoAnalyzeOnSelectMedia = v]
  /\ UNCHANGED workerVars

\* ---- C27
\* The signal scenario: upload signals from the listeners and from tiles with
\* an upload class, at distances around the window.
SignalAtts == 1       \* attachment ids in one behaviour of SpecSignal
SignalTicks == 4      \* clock advances in one behaviour of SpecSignal
MaxSigs == 4          \* calls of markUploadSignal in one behaviour of SpecSignal

SignalSteps == {1, UploadSignalWindowMs - 1, UploadSignalWindowMs, UploadSignalWindowMs + 1}

InitSignal ==
  /\ InitWorker(1, 1, 1, 0, FALSE)
  /\ obs = ObsInit(SignalAtts, SignalTicks, FALSE, {})

NextSignal ==
  \/ \E d \in SignalSteps : ObsTick(d)
  \/ Len(obs.sigs) < MaxSigs /\ UploadSignal
  \/ \E a \in ObsAtts : Len(obs.sigs) < MaxSigs /\ NodeAdded(a, TRUE, TRUE)
  \/ \E a \in ObsAtts, up \in BOOLEAN :
       Len(obs.sigs) < MaxSigs /\ AttrChanged(a, up, FALSE, TRUE)

SpecSignal == InitSignal /\ [][NextSignal]_vars

C27_Step ==
  (Len(obs'.sigs) > Len(obs.sigs) /\ obs.sigs # << >>) =>
    LET prev == obs.sigs[Len(obs.sigs)]
        t    == obs'.sigs[Len(obs'.sigs)]
    IN  /\ t = obs.now
        /\ obs'.lastUploadingSignalAt = t
        /\ (t - prev > UploadSignalWindowMs) => obs'.uploadSessionStartAt = t
        /\ (t - prev <= UploadSignalWindowMs)
             => obs'.uploadSessionStartAt = obs.uploadSessionStartAt

\* C27 (upload session window): an upload signal arriving more than
\* UploadSignalWindowMs after the previous signal sets uploadSessionStartAt
\* to the time of the signal; a signal arriving within UploadSignalWindowMs of
\* the previous one leaves uploadSessionStartAt as it was; either way
\* lastUploadingSignalAt becomes the time of the signal.
C27_SessionWindow == [][C27_Step]_vars

\* a session was continued by a signal exactly UploadSignalWindowMs after the
\* previous one, and a later signal, one millisecond further apart, started a
\* new session
C27_Witness ==
  /\ Len(obs.sigs) >= 3
  /\ \E k \in 2..(Len(obs.sigs) - 1) :
       /\ obs.sigs[k] - obs.sigs[k - 1] = UploadSignalWindowMs
       /\ obs.sigs[k + 1] - obs.sigs[k] = UploadSignalWindowMs + 1
       /\ k + 1 = Len(obs.sigs)
  /\ obs.uploadSessionStartAt = obs.sigs[Len(obs.sigs)]

\* ---- C28
\* The gate scenario: tiles that were in the library at start-up or are
\* added later, upload classes that come and go, selections, clicks, changes of
\* the setting, scans at any moment and answers of every kind.
GateAtts == 2         \* attachment ids in one behaviour of SpecGate
GateTicks == 2        \* clock advances in one behaviour of SpecGate
GateSends == 1        \* hand-offs answered with an error or as skipped in one behaviour

GateSteps == {MinAgeMs - 1, MinAgeMs, UploadSignalWindowMs + 1}

InitGate ==
  /\ InitWorker(1, 1, 1, 0, FALSE)
  /\ \E E \in SUBSET {1} : obs = ObsInit(GateAtts, GateTicks, FALSE, E)

\* (an upload class that has gone does not come back; every tile has a thumbnail)
NextGate ==
  \/ \E d \in GateSteps : ObsTick(d)
  \/ UploadSignal
  \/ \E a \in ObsAtts, up \in BOOLEAN : NodeAdded(a, up, TRUE)
  \/ \E a \in ObsAtts, up \in BOOLEAN, sel \in BOOLEAN :
       (up => obs.dom[a].uploading) /\ AttrChanged(a, up, sel, TRUE)
  \/ UserSelect
  \/ \E a \in ObsAtts : Scan(a)
  \/ \E a \in ObsAtts : HandOffAnswered(a, "ok")
  \/ \E a \in ObsAtts : HandOffAnswered(a, "duplicate")
  \/ \E a \in ObsAtts, res \in {"skipped", "error"} :
       obs.sent <= GateSends /\ HandOffAnswered(a, res)
  \/ \E v \in BOOLEAN : SettingChanged(v)

SpecGate == InitGate /\ [][NextGate]_vars

\* an upload signal occurred within the last UploadSignalWindowMs
SignalWithinWindow(o) ==
  \E k \in 1..Len(o.sigs) : o.now - o.sigs[k] <= UploadSignalWindowMs

\* id b counts as recently marked as uploading: first seen within the window
\* and either seen with an upload class or first seen, outside the initial
\* scan, since the start of the running upload session
RecentlyMarked(o, b) ==
  /\ o.byId[b].has
  /\ o.now - o.byId[b].firstSeenAt <= UploadSignalWindowMs
  /\ \/ o.byId[b].sawUploading
     \/ /\ SignalWithinWindow(o) /\ ~o.byId[b].initialScan
        /\ o.byId[b].firstSeenAt >= o.uploadSessionStartAt - SessionSlackMs

BatchGate(o, a) ==
  /\ Cardinality({b \in DOMAIN o.byId : RecentlyMarked(o, b)}) >= 2
  /\ SignalWithinWindow(o)
  /\ \/ o.byId[a].sawUploading
     \/ ~o.byId[a].initialScan /\ o.byId[a].firstSeenAt > o.startedAt

SelectGate(o, a) ==
  /\ o.autoAnalyzeOnSelectMedia
  /\ o.dom[a].selected
  /\ o.lastUserSelectAt > 0 /\ o.now - o.lastUserSelectAt <= SelectWindowMs

C28_Step ==
  \A a \in ObsAtts :
    obs'.out[a] > obs.out[a] =>
      /\ obs'.byId[a].has
      /\ obs'.now - obs'.byId[a].firstSeenAt >= MinAgeMs
      /\ BatchGate(obs', a) \/ SelectGate(obs', a)

C30_OneOutstanding == \A a \in ObsAtts : obs.out[a] <= 1

\* a second message for an id is outstanding after the first was answered
\* with an error, while a message for another id is outstanding as well
C30_Witness ==
  \E a, b \in ObsAtts :
    /\ a # b
    /\ obs.out[a] = 1 /\ obs.byId[a].retries = 1 /\ obs.byId[a].triggered
    /\ obs.out[b] = 1
    /\ obs.sent = 3

\* ---- C29
\* The threshold scenario: one configuration, with any of the values below
\* stored for autoUploadSafetyFuseMaxQueued and the fuse on or off, and
\* distinct candidates of tab 1 that arrive one after the other; no job
\* finishes, so queued of the tab counts the admissions.
ThresholdExtra == 2   \* candidates beyond FuseDefault in one behaviour of SpecThreshold

StringInputs == {"", " ", "7", " 30 ", "abc", "12px"}

FuseInputs ==
  {JsNum(n) : n \in {-3, 0, FuseMin, 7, FuseDefault + 1}}
    \cup {JsStr(s) : s \in StringInputs}
    \cup {JsBool(TRUE), JsNull, JsUndefined, JsInfinity, NotANumber}

ThresholdCfgs ==
  {[enabled |-> TRUE, fuseEnabled |-> e, fuseMaxQueued |-> v] : e \in BOOLEAN, v \in FuseInputs}

InitThreshold ==
  InitWith(FuseDefault + ThresholdExtra, 1, FuseDefault + ThresholdExtra, 0, FALSE)

NextThreshold ==
  \/ \E h \in Handlers :
       /\ hs[h].pc = "idle" /\ h = NextHandler
       /\ \A g \in Handlers : hs[g].pc \notin {"cfg", "qsend"}
       /\ Receive(1, h, TRUE, TRUE)
  \/ \E c \in ThresholdCfgs : CfgRead(c)
  \/ \E h \in Handlers : QueuedSent(h)

SpecThreshold == InitThreshold /\ [][NextThreshold]_vars

\* the threshold the configured value v stands for: max(FuseMin, v) for a
\* finite number, FuseDefault for everything that is not a number
ClaimedThreshold(v) == IF v.t = "number" THEN Max2(FuseMin, v.n) ELSE FuseDefault

\* C29 (effective fuse threshold): with the fuse enabled an admission is
\* refused by the fuse exactly when ClaimedThreshold(configured) candidates
\* have been admitted (max(FuseMin, configured) for a finite number,
\* FuseDefault for a missing value or one that is not a number); with the
\* fuse disabled no admission is refused by the fuse.
C29_Threshold ==
  cfgCache # << >> =>
    LET c == cfgCache[1]
        E == ClaimedThreshold(c.fuseMaxQueued)
    IN  IF c.fuseEnabled
          THEN /\ Cardinality(Emitted("queued")) <= E
               /\ (Emitted("safety_stop") # {}) = (Cardinality(Decided) > E)
          ELSE /\ Emitted("safety_stop") = {}
               /\ Emitted("queued") = Decided

\* ---- C31
\* the answer to the hand-off of id a leaves the flag set and nothing outstanding
SettledForGood(o, a) == o.byId[a].has /\ o.byId[a].triggered /\ o.out[a] = 0

C31_Step ==
  \A a \in ObsAtts :
    /\ HandOffAnswered(a, "duplicate") => SettledForGood(obs', a)
    /\ (\E res \in {"skipped", "error"} : HandOffAnswered(a, res)) =>
         ~obs'.byId[a].triggered /\ obs'.out[a] = 0
    /\ SettledForGood(obs, a) => SettledForGood(obs', a)

\* C31 (hand-off response handling): the answer skipped with reason duplicate
\* leaves triggered set, and from then on no message for that attachment id is
\* sent again; an answer skipped for another reason or a failed answer resets
\* triggered, so that a later call of maybeAutoProcessUploadedAttachment can
\* send the attachment again.
C31_ResponseHandling == [][C31_Step]_vars

\* the only message of a behaviour was answered as skipped for a reason other
\* than duplicate (no retry was counted), and a later scan has sent the same
\* id a second time; no other id was ever handed off
C31_Witness ==
  \E a \in ObsAtts :
    /\ obs.sent = 2 /\ obs.out[a] = 1 /\ obs.byId[a].triggered
    /\ obs.byId[a].retries = 0
    /\ \A b \in ObsAtts \ {a} : ~obs.via[b].batch /\ ~obs.via[b].select

\* ---- C32
\* the last command of the user (Pause, Resume or Cancel) was a Cancel that
\* found unfinished jobs
CancelIsLastCommand ==
  /\ CommandEvents # {}
  /\ LET k == CHOOSE j \in CommandEvents : \A i \in CommandEvents : i <= j
     IN  events[k].phase = "cancel_request"

\* A job that leaves waitIfAutoUploadPaused after such a Cancel was blocked in
\* the wait when the Cancel arrived: it entered the wait while the paused flag
\* was set, the Cancel has cleared the flag and no Pause has followed.
C32_Step ==
  \A h \in Handlers :
    (hs[h].pc = "pausewait" /\ hs'[h].pc # "pausewait" /\ CancelIsLastCommand)
      => hs'[h].pc = "cisend" /\ Gains(h, "cancelled_item")

\* C32 (cancel ends the pause-wait): a job that is blocked in the pause-wait
\* when Cancel is issued leaves the wait as cancelled: it emits cancelled_item
\* and does not go on to 'processing' and analyzeImage.
C32_WaitCancelled == [][C32_Step]_vars

\* ---- C33
\* The liveness scenario: LiveMsgs distinct candidates of tab 1, analysis and
\* applier calls that succeed or fail, Pause, Resume and Cancel at any moment
\* and any number of times; progress messages are not recorded.
LiveMsgs == 2         \* messages in one behaviour of SpecLive

InitLive == InitWith(LiveMsgs, 1, LiveMsgs, 0, FALSE)

NextLive ==
  \/ \E h \in Handlers : hs[h].pc = "idle" /\ h = NextHandler /\ Receive(1, h, TRUE, TRUE)
  \/ CfgRead(DefaultCfg)
  \/ \E h \in Handlers : QueuedSent(h)
  \/ \E h \in Handlers : JobStart(h)
  \/ \E h \in Handlers : PauseWake(h)
  \/ \E h \in Handlers : StartLogged(h)
  \/ \E h \in Handlers : ProcessingSent(h)
  \/ \E h \in Handlers, f \in BOOLEAN : AnalyzeDone(h, f)
  \/ \E h \in Handlers, f \in BOOLEAN : ApplySettled(h, f)
  \/ \E h \in Handlers : DoneItemSent(h)
  \/ \E h \in Handlers : DoneAllSent(h)
  \/ \E h \in Handlers : EndLogged(h)
  \/ \E h \in Handlers : CancelItemSent(h)
  \/ \E h \in Handlers : CancelledSent(h)
  \/ \E h \in Handlers : ErrorItemSent(h)
  \/ \E h \in Handlers : ErrorAllSent(h)
  \/ Cancel(1)
  \/ Pause(1)
  \/ Resume(1)

\* one step of the handler invocation h after admission: the completion of an
\* awaited call, whatever its outcome
LiveStep(h) ==
  \/ QueuedSent(h)
  \/ JobStart(h)
  \/ StartLogged(h)
  \/ ProcessingSent(h)
  \/ \E f \in BOOLEAN : AnalyzeDone(h, f)
  \/ \E f \in BOOLEAN : ApplySettled(h, f)
  \/ DoneItemSent(h)
  \/ DoneAllSent(h)
  \/ EndLogged(h)
  \/ CancelItemSent(h)
  \/ CancelledSent(h)
  \/ ErrorItemSent(h)
  \/ ErrorAllSent(h)

\* The scenario under the assumptions that every awaited call of an admitted
\* handler terminates, that the 150 ms poll of waitIfAutoUploadPaused sees the
\* paused flag cleared if it is cleared again and again, and that every Pause is
\* followed by a Resume or a Cancel.
SpecLive ==
  /\ InitLive
  /\ [][NextLive]_vars
  /\ \A h \in 1..LiveMsgs : WF_vars(LiveStep(h)) /\ SF_vars(PauseWake(h))
  /\ WF_vars(pauseReq[1] /\ (Resume(1) \/ Cancel(1)))

\* the item events job h has emitted
ItemsOf(h) == hs[h].em \cap ItemPhases

AdmissionWhileCancelled(h) ==
  /\ Decides(h)
  /\ \A g \in Handlers \ {h} : hs'[g] = hs[g]
  /\ hs'[h].tab \in Tabs /\ mem.cancel[hs'[h].tab]

\* the tab has unfinished jobs and its last activity is at most StaleMs old
BusyAndRecent(t) ==
  /\ CounterOf(mem, t, "done") < CounterOf(mem, t, "queued")
  /\ now - CounterOf(mem, t, "lastAt") <= StaleMs

C34_Step ==
  \A h \in Handlers :
    AdmissionWhileCancelled(h) =>
      LET t == hs'[h].tab
      IN  IF BusyAndRecent(t)
            THEN /\ hs'[h].resp = "cancelled"
                 /\ \A f \in Counters : CounterOf(mem', t, f) = CounterOf(mem, t, f)
                 /\ mem'.cancel[t]
            ELSE /\ hs'[h].resp # "cancelled"
                 /\ ~mem'.cancel[t] \/ Gains(h, "safety_stop")

\* C34 (admission during cancellation): an admission that finds the cancel
\* flag of its tab set is refused as cancelled, with the counters unchanged,
\* when done < queued and the last activity of the tab is at most StaleMs old;
\* otherwise the flag is cleared and the admission goes on to the dedup and
\* fuse checks.
C34_AdmissionWhileCancelled == [][C34_Step]_vars

\* ---- C35
\* item events that report done = queued: the moments at which done reaches
\* queued
Settlements ==
  {k \in 1..Len(events) : events[k].phase \in ItemPhases /\ events[k].done = events[k].queued}

\* C35 (one terminal event per settlement): once every handler has returned,
\* the jobs' handlers have sent no more done_all and cancelled events than
\* there were moments at which done reached queued.
C35_OneTerminalPerSettlement ==
  AllReturned => Cardinality({k \in 1..Len(events) : Terminal(k)}) <= Cardinality(Settlements)

\* ---- C36
\* the seen registry of tab t holds id a
InRegistry(m, t, a) == m.seenHas[t] /\ m.seen[t][a] > 0

\* every job admitted so far for id a of tab t, by a handler other than h, has
\* ended as error_item or cancelled_item, and there is such a job
OnlyEndedBadly(h, t, a) ==
  /\ \E g \in Handlers \ {h} : hs[g].tab = t /\ hs[g].att = a /\ EndedBadly(g)
  /\ \A g \in Handlers \ {h} : (hs[g].tab = t /\ hs[g].att = a /\ Accepted(g)) => EndedBadly(g)

C36_Step ==
  \A h \in Handlers :
    LET t == hs'[h].tab
        a == hs'[h].att
    IN  /\ (Gains(h, "error_item") \/ Gains(h, "cancelled_item")) => ~InRegistry(mem', t, a)
        /\ (Decides(h) /\ OnlyEndedBadly(h, t, a) /\ ~mem.cancel[t]) => Gains(h, "queued")
        /\ (Gains(h, "done_item") /\ now - hs[h].at <= TtlMs) => InRegistry(mem', t, a)
        /\ \A g \in Handlers :
             (Succeeded(g, t, a) /\ InRegistry(mem, t, a) /\ now' - mem.seen[t][a] <= TtlMs)
               => InRegistry(mem', t, a)

\* C36 (re-admission after failure): a job that ends as error_item or
\* cancelled_item leaves its id out of the seen registry of its tab, and a
\* later admission of the id, all of whose jobs ended that way, is accepted;
\* a job that ends as done_item within TtlMs of its admission leaves its id
\* in the registry, where it stays while it is not older than TtlMs.
C36_Readmission == [][C36_Step]_vars

\* ---- C37
\* the stats object o is referred to by the map or by a handler after the step
LiveAfter(o) ==
  \/ \E t \in DOMAIN mem'.stats : mem'.stats[t] = o
  \/ \E h \in Handlers : hs'[h].st = o

\* the handlers that emit one of the item events in phases in this step and
\* count themselves in the stats object o
Counted(o, phases) ==
  {h \in Handlers : hs'[h].st = o /\ \E p \in phases : Gains(h, p)}

C37_Step ==
  /\ \A o \in DOMAIN mem.heap :
       /\ mem'.heap[o].ok + mem'.heap[o].error <= mem'.heap[o].done
       /\ LiveAfter(o) =>
            /\ mem'.heap[o].done - mem.heap[o].done = Cardinality(Counted(o, ItemPhases))
            /\ mem'.heap[o].ok - mem.heap[o].ok = Cardinality(Counted(o, {"done_item"}))
            /\ mem'.heap[o].error - mem.heap[o].error = Cardinality(Counted(o, {"error_item"}))
  /\ \A h \in Handlers :
       /\ Cardinality(hs'[h].em \cap ItemPhases) <= 1
       /\ (Accepted(h) /\ hs'[h].pc = "done") => Cardinality(hs'[h].em \cap ItemPhases) = 1

\* C37 (counter consistency): every stats object satisfies ok + error <= done;
\* a step raises done by the number of jobs that emit their item event in it,
\* ok by the number that emit done_item and error by the number that emit
\* error_item; and a job emits at most one item event, exactly one by the time
\* its handler returns.
C37_CounterConsistency == [][C37_Step]_vars

\* every handler has returned, one job was cancelled and one has failed:
\* done = 2, error = 1 and ok = 0
C37_Witness ==
  /\ AllReturned
  /\ \E g, h \in Handlers : ItemsOf(g) = {"cancelled_item"} /\ ItemsOf(h) = {"error_item"}
  /\ \E t \in Tabs :
       /\ CounterOf(mem, t, "done") = 2 /\ CounterOf(mem, t, "error") = 1
       /\ CounterOf(mem, t, "ok") = 0

\* ---- C38
\* C38 (terminal messages are clean): every done_all and cancelled message
\* sent by the handler of a job reports paused = false and an empty queue
\* preview.
C38_TerminalClean ==
  \A k \in 1..Len(events) :
    Terminal(k) => ~events[k].paused /\ events[k].queue = << >>

\* a Pause found the last job running (done < queued, no job waiting) and no
\* other command has followed; the job has then drained the queue and its
\* handler has sent done_all
C38_Witness ==
  \E i, k \in 1..Len(events) :
    /\ i < k
    /\ events[i].phase = "paused" /\ events[i].queued = events[i].done + 1
    /\ events[k].phase = "done_all" /\ events[k].done = events[i].queued
    /\ \A j \in (i + 1)..k : events[j].att # NoAtt

\* ---- C39
\* MACA_BATCH_CANCEL has been received for the tab of the run h since the run
\* began: the run sets the flag to false when it begins (3508) and only the
\* cancel message sets it to true (3622)
CancelReceived(h) == mem.batchCancel[hs[h].tab] = "true"

C39_Step ==
  \A h \in Handlers :
    LET r == hs[h]
        r2 == hs'[h]
        t == hs[h].tab
    IN  /\ (r.pc \in BatchPcs \ {"bitem", "banalyze"} /\ CancelReceived(h))
             => r2.pc \notin {"bitem", "banalyze"}
        /\ (r.pc = "bitem" /\ r2.pc = "banalyze" /\ CancelReceived(h)) => r2.sig
        /\ (r.pc = "bend" /\ r2.pc = "done" /\ CancelReceived(h) /\ r.resp # "error")
             => /\ Cardinality(r.em \cap BatchTerminal) = 1
                /\ "overlay_cancelled" \in r.em => r.resp = "cancelled" /\ r.cur = r.iters
                /\ "overlay_done" \in r.em
                     => r.resp = "ok" /\ r.cur = BatchItems /\ r.iters = BatchItems
        /\ (r.pc = "bend" /\ r2.pc = "done")
             => mem'.batchCancel[t] = "none" /\ mem'.batchAbort[t] = 0

\* C39 (manual batch cancel): once MACA_BATCH_CANCEL has been received for a
\* tab whose batch is running, the run begins no further iteration: the only
\* call of analyzeImage that can still follow is the one of the item whose
\* 'item' overlay message was being sent, and it is made with an aborted
\* signal; a run that had items returns after exactly one closing overlay
\* message, 'cancelled' with current equal to the number of completed
\* iterations or 'done' with current equal to the total; and every return
\* removes the tab's batch cancel flag and abort controller.
C39_BatchCancel == [][C39_Step]_vars

\* ---- C40
\* the accepted jobs of attachment a in tab t that have not yet emitted their
\* item event (done_item, error_item or cancelled_item)
Unfinished(t, a) ==
  {h \in Handlers : Accepted(h) /\ hs[h].tab = t /\ hs[h].att = a /\ hs[h].em \cap ItemPhases = {}}

\* every id of the list belongs to an unfinished accepted job
PendingAreUnfinished == \A t \in DOMAIN mem.pend : \A k \in 1..Len(mem.pend[t]) : Unfinished(t, mem.pend[t][k]) # {}

\* no id appears twice
PendingNoDuplicate ==
  \A t \in DOMAIN mem.pend : \A i, j \in 1..Len(mem.pend[t]) : i # j => mem.pend[t][i] # mem.pend[t][j]

\* the ids are in the order of their admissions
PendingInAdmissionOrder ==
  \A t \in DOMAIN mem.pend : \A i, j \in 1..Len(mem.pend[t]) :
    i < j => \E g \in Unfinished(t, mem.pend[t][i]), h \in Unfinished(t, mem.pend[t][j]) :
               hs[g].seq < hs[h].seq

\* The preview scenario: PreviewMsgs distinct candidates of tab 1 arrive in
\* rapid succession, more than a preview holds; the page answers the
\* 'queued' message of the first PreviewRun handlers only, so their jobs run
\* (and succeed) while the later candidates stay pending; every progress
\* message is recorded.
PreviewMsgs == PreviewLen + 1

PreviewRun == 2       \* handlers whose 'queued' message is answered in SpecPreview

InitPreview == InitWith(PreviewMsgs, 1, PreviewMsgs, 0, TRUE)

NextPreview ==
  \/ \E h \in Handlers : hs[h].pc = "idle" /\ h = NextHandler /\ Receive(1, h, TRUE, TRUE)
  \/ CfgRead(DefaultCfg)
  \/ \E h \in 1..PreviewRun : QueuedSent(h)
  \/ \E h \in Handlers : JobStart(h)
  \/ \E h \in Handlers : StartLogged(h)
  \/ \E h \in Handlers : ProcessingSent(h)
  \/ \E h \in Handlers : AnalyzeDone(h, TRUE)
  \/ \E h \in Handlers : ApplySettled(h, TRUE)
  \/ \E h \in Handlers : DoneItemSent(h)
  \/ \E h \in Handlers : DoneAllSent(h)
  \/ \E h \in Handlers : EndLogged(h)

SpecPreview == InitPreview /\ [][NextPreview]_vars

\* sequence p is an initial part of sequence q
IsPrefix(p, q) == Len(p) <= Len(q) /\ \A k \in 1..Len(p) : p[k] = q[k]

\* the progress messages sent by the step carry as queue at most PreviewLen
\* ids, the first ones of the tab's pendingIds
PreviewOfPending ==
  \A k \in (Len(events) + 1)..Len(events') :
    LET e == events'[k]
    IN  e.tab \in DOMAIN mem.pend =>
          /\ Len(e.queue) <= PreviewLen
          /\ IsPrefix(e.queue, mem'.pend[e.tab])
          /\ k = Len(events') => e.queue = Take(mem'.pend[e.tab], PreviewLen)

C40_Step ==
  /\ PendingAreUnfinished'
  /\ PendingNoDuplicate'
  /\ PendingInAdmissionOrder'
  /\ PreviewOfPending

\* C40 (pendingIds is an ordered set of unfinished work): after every step
\* each id in a tab's pendingIds belongs to an accepted job that has not yet
\* emitted its item event, no id appears twice, the ids are in the order of
\* their admissions, and every progress message the step sent carries as its
\* queue preview at most the first 8 ids of the list.
C40_PendingIds == [][C40_Step]_vars

\* nine candidates are pending and the latest progress message, 'processing'
\* of the first job, carries the first eight of them
C40_Witness ==
  /\ Len(mem.pend[1]) = PreviewLen + 1
  /\ events # << >>
  /\ events[Len(events)].phase = "processing"
  /\ events[Len(events)].queue = SubSeq(mem.pend[1], 1, PreviewLen)

====
